---- MODULE Spec2Model ----
(***************************************************************************)
(* Model of the Newton-method expression pipeline: syntax nodes (copy,     *)
(* destroy, evaluate, is_constant, derive), the shunting-yard parser, the  *)
(* bytecode compiler back end and the stack virtual machine.               *)
(*                                                                         *)
(* Memory is a heap of syntax nodes addressed by index; every C function   *)
(* that allocates, links or frees nodes is an operator that takes the      *)
(* process memory M and returns the memory after the call.  A failed       *)
(* assert() or an exit(1) ends the process: it is recorded in M.fault and  *)
(* every later step of the same call chain leaves M alone.                 *)
(***************************************************************************)
EXTENDS Integers, Sequences, FiniteSets, TLC

VARIABLES
    pc,              \* position of the driver / test harness
    mem,             \* process memory: heap of syntax nodes, freed set, fault
    input,           \* the expression tree (SpecTree) or token list (Spec) fed in
    parser,          \* struct parser: operand_stack, operator_stack, previous_node
    function_tree,   \* SyntaxNode *function_tree
    derivative_tree, \* SyntaxNode *derivative_tree
    out              \* outputs of the last call (return values, out-parameters)

vars == <<pc, mem, input, parser, function_tree, derivative_tree, out>>

-----------------------------------------------------------------------------
(* Bounds of the model *)

\* Largest number of nodes of an input expression tree (SpecTree).
MaxNodes == 5
\* Largest number of tokens handed to the parser (Spec).
MaxTokens == 5
\* Largest magnitude of a finite number of the integer model of double;
\* anything larger overflows to an infinity, as DBL_MAX does for double.
FMax == 10000
\* items (opcode bytes and literals) in a byte sequence given to the machine
MaxItems == 4
\* elements on one stack when the stacks are pushed and popped on their own
MaxDepth == 9

-----------------------------------------------------------------------------
(* enum operator_type *)

OP_UNKNOWN     == 0
OP_NUMBER      == 1
OP_NEGATE      == 2
OP_PLUS        == 3
OP_MINUS       == 4
OP_TIMES       == 5
OP_DIVIDE      == 6
OP_POWER       == 7
OP_EXP         == 8
OP_LN          == 9
OP_SIN         == 10
OP_COS         == 11
OP_TAN         == 12
OP_X_VAR       == 13
OP_PI          == 14
OP_E           == 15
OP_LEFT_BRACE  == 16
OP_RIGHT_BRACE == 17

MAX_ARITY == 2
NULL == 0

operator_arity(op) ==
    CASE op \in {OP_NEGATE, OP_EXP, OP_LN, OP_SIN, OP_COS, OP_TAN} -> 1
      [] op \in {OP_PLUS, OP_MINUS, OP_TIMES, OP_DIVIDE, OP_POWER} -> 2
      [] OTHER -> 0

operator_precedence(op) ==
    CASE op \in {OP_PLUS, OP_MINUS} -> 1
      [] op \in {OP_TIMES, OP_DIVIDE} -> 2
      [] op = OP_NEGATE -> 3
      [] op \in {OP_POWER, OP_EXP, OP_LN, OP_SIN, OP_COS, OP_TAN} -> 4
      [] OTHER -> 0

-----------------------------------------------------------------------------
(* double: an integer model.  Finite values are the integers of            *)
(* -FMax..FMax; PosInf, NegInf and NaN are the IEEE specials.  + - * are   *)
(* exact and overflow to an infinity; / truncates; the libm functions are  *)
(* fixed integer stand-ins (deterministic, as the C library's are), so two *)
(* evaluators agree on every input only if they apply the same operations  *)
(* to the same operands in the same order.                                 *)

PosInf == FMax + 1
NegInf == 0 - (FMax + 1)
NaN    == FMax + 2

\* #define PI / #define E, truncated to the integer model
PI == 3
E  == 2

IsFinite(a) == a >= 0 - FMax /\ a <= FMax
Sat(v) == IF v > FMax THEN PosInf ELSE IF v < 0 - FMax THEN NegInf ELSE v
Sign(a) == IF a > 0 THEN 1 ELSE IF a < 0 THEN 0 - 1 ELSE 0
Abs(a) == IF a < 0 THEN 0 - a ELSE a

FNeg(a) == IF a = NaN THEN NaN ELSE 0 - a

FAdd(a, b) ==
    IF a = NaN \/ b = NaN THEN NaN
    ELSE IF ~IsFinite(a) THEN (IF ~IsFinite(b) /\ b # a THEN NaN ELSE a)
    ELSE IF ~IsFinite(b) THEN b
    ELSE Sat(a + b)

FSub(a, b) == FAdd(a, FNeg(b))

FMul(a, b) ==
    IF a = NaN \/ b = NaN THEN NaN
    ELSE IF ~IsFinite(a) \/ ~IsFinite(b)
         THEN (IF a = 0 \/ b = 0 THEN NaN
               ELSE IF Sign(a) * Sign(b) > 0 THEN PosInf ELSE NegInf)
    ELSE Sat(a * b)

FDiv(a, b) ==
    IF a = NaN \/ b = NaN THEN NaN
    ELSE IF b = 0
         THEN (IF a = 0 THEN NaN ELSE IF a > 0 THEN PosInf ELSE NegInf)
    ELSE IF ~IsFinite(a)
         THEN (IF ~IsFinite(b) THEN NaN
               ELSE IF Sign(a) * Sign(b) > 0 THEN PosInf ELSE NegInf)
    ELSE IF ~IsFinite(b) THEN 0
    ELSE Sign(a) * Sign(b) * (Abs(a) \div Abs(b))

RECURSIVE IPow(_, _)
IPow(a, n) ==
    IF n = 0 THEN 1
    ELSE IF n % 2 = 0 THEN LET h == IPow(a, n \div 2) IN FMul(h, h)
    ELSE FMul(a, IPow(a, n - 1))

\* pow(a, b)
FPow(a, b) ==
    IF b = 0 THEN 1
    ELSE IF a = NaN \/ b = NaN THEN NaN
    ELSE IF b = PosInf
         THEN (IF Abs(a) > 1 THEN PosInf ELSE IF Abs(a) = 1 THEN 1 ELSE 0)
    ELSE IF b = NegInf
         THEN (IF Abs(a) > 1 THEN 0 ELSE IF Abs(a) = 1 THEN 1 ELSE PosInf)
    ELSE IF b > 0 THEN IPow(a, b)
    ELSE FDiv(1, IPow(a, 0 - b))

\* exp(a)
FExp(a) == FPow(E, a)

RECURSIVE ILog(_)
ILog(a) == IF a < E THEN 0 ELSE 1 + ILog(a \div E)

\* log(a)
FLn(a) ==
    IF a = NaN \/ a < 0 THEN NaN
    ELSE IF a = 0 THEN NegInf
    ELSE IF a = PosInf THEN PosInf
    ELSE ILog(a)

\* sin(a), cos(a), tan(a): rounded values over a period of 6
FSin(a) == IF ~IsFinite(a) THEN NaN ELSE <<0, 1, 1, 0, 0 - 1, 0 - 1>>[(a % 6) + 1]
FCos(a) == IF ~IsFinite(a) THEN NaN ELSE <<1, 1, 0, 0 - 1, 0 - 1, 0>>[(a % 6) + 1]
FTan(a) == FDiv(FSin(a), FCos(a))

-----------------------------------------------------------------------------
(* Process memory.  nodes[p] is the SyntaxNode at address p; freed holds   *)
(* the addresses passed to free(); fault is "none" while the process runs, *)
(* "assert" after a failed assert(), "exit" after exit(1), "crash" after a *)
(* write through NULL.  avail is the number of malloc() calls that will    *)
(* still succeed (negative: no limit).                                     *)

EmptyMemory == [nodes |-> <<>>, freed |-> {}, fault |-> "none", avail |-> 0 - 1]

Running(M) == M.fault = "none"
Fault(M, kind) == IF Running(M) THEN [M EXCEPT !.fault = kind] ELSE M
\* assert(cond)
AssertThat(M, cond) == IF Running(M) /\ ~cond THEN Fault(M, "assert") ELSE M

Deref(M, p) == M.nodes[p]
\* node->operand[i], i counted from 0 as in the source
Operand(M, p, i) == M.nodes[p].operand[i + 1]
\* node->operand[i] = child
SetOperand(M, p, i, child) ==
    IF ~Running(M) THEN M
    ELSE IF p = NULL THEN Fault(M, "crash")
    ELSE [M EXCEPT !.nodes[p].operand[i + 1] = child]

syntax_node_construct(M, op, number) ==
    IF ~Running(M) THEN [M |-> M, ptr |-> NULL]
    ELSE IF M.avail = 0 THEN [M |-> M, ptr |-> NULL]
    ELSE [M |-> [M EXCEPT !.nodes = Append(@, [operator_value |-> op,
                                               numeric_value |-> number,
                                               arity |-> operator_arity(op),
                                               operand |-> <<NULL, NULL>>]),
                          !.avail = IF @ > 0 THEN @ - 1 ELSE @],
          ptr |-> Len(M.nodes) + 1]

RECURSIVE syntax_node_destroy(_, _)
RECURSIVE DestroyOperands(_, _, _)
\* the loop of syntax_node_destroy from child i on
DestroyOperands(M, node, i) ==
    IF ~Running(M) \/ i >= Deref(M, node).arity THEN M
    ELSE DestroyOperands(
             SetOperand(syntax_node_destroy(M, Operand(M, node, i)), node, i, NULL),
             node, i + 1)

syntax_node_destroy(M, node) ==
    IF ~Running(M) THEN M
    ELSE IF node = NULL THEN Fault(M, "assert")
    ELSE LET M1 == DestroyOperands(M, node, 0)
         IN IF Running(M1) THEN [M1 EXCEPT !.freed = @ \cup {node}] ELSE M1

RECURSIVE syntax_node_copy(_, _)
\* the rollback loop of syntax_node_copy releasing nothing
DestroyCopied_leak(M, copy, j) == M

RECURSIVE DestroyCopied(_, _, _)
\* the rollback loop of syntax_node_copy: destroy copy->operand[j], j down to 0
DestroyCopied(M, copy, j) ==
    IF j < 0 THEN M
    ELSE DestroyCopied(syntax_node_destroy(M, Operand(M, copy, j)), copy, j - 1)

RECURSIVE CopyOperands(_, _, _, _)
\* the loop of syntax_node_copy from child i on
CopyOperands(M, copy, original, i) ==
    IF ~Running(M) THEN [M |-> M, ptr |-> NULL]
    ELSE IF i >= Deref(M, copy).arity THEN [M |-> M, ptr |-> copy]
    ELSE LET c  == syntax_node_copy(M, Operand(M, original, i))
             M1 == SetOperand(c.M, copy, i, c.ptr)
         IN IF Running(M1) /\ c.ptr = NULL
            THEN [M |-> [DestroyCopied(M1, copy, i - 1) EXCEPT !.freed = @ \cup {copy}],
                  ptr |-> NULL]
            ELSE CopyOperands(M1, copy, original, i + 1)

\* syntax_node_copy that hands back the original node instead of a duplicate
syntax_node_copy_alias(M, original) == [M |-> M, ptr |-> original]

syntax_node_copy(M, original) ==
    IF ~Running(M) THEN [M |-> M, ptr |-> NULL]
    ELSE IF original = NULL THEN [M |-> Fault(M, "crash"), ptr |-> NULL]
    ELSE LET c == syntax_node_construct(M, Deref(M, original).operator_value,
                                        Deref(M, original).numeric_value)
         IN IF c.ptr = NULL THEN c
            ELSE CopyOperands(c.M, c.ptr, original, 0)

RECURSIVE syntax_node_is_constant(_, _)
RECURSIVE IsConstantOperands(_, _, _)
\* the loop of syntax_node_is_constant from round i on
IsConstantOperands(M, node, i) ==
    IF i >= Deref(M, node).arity THEN TRUE
    ELSE IF ~syntax_node_is_constant(M, Operand(M, node, 0)) THEN FALSE
    ELSE IsConstantOperands(M, node, i + 1)

syntax_node_is_constant(M, node) ==
    IF Deref(M, node).operator_value = OP_X_VAR THEN FALSE
    ELSE IsConstantOperands(M, node, 0)

-----------------------------------------------------------------------------
(* Evaluation: syntax_node_operate and the operation_list entries.  The    *)
(* result is [st, v]: st is "ok" with the returned double v, "exit" when   *)
(* the call ended the process with exit(1), "assert" when an assert()      *)
(* failed.  Operands are evaluated left to right.                          *)

Val(v) == [st |-> "ok", v |-> v]
Stop(kind) == [st |-> kind, v |-> 0]
Checked(cond, r) == IF cond THEN r ELSE Stop("assert")
\* the value v computed from the operand results a (and b), unless the
\* evaluation of an operand ended the process
Then1(a, v) == IF a.st # "ok" THEN a ELSE Val(v)
Then2(a, b, v) == IF a.st # "ok" THEN a ELSE IF b.st # "ok" THEN b ELSE Val(v)

RECURSIVE syntax_node_operate(_, _, _)

syntax_node_operation_number_value(M, node, value) ==
    Checked(Deref(M, node).operator_value = OP_NUMBER, Val(Deref(M, node).numeric_value))

syntax_node_operation_negate(M, node, value) ==
    Checked(Deref(M, node).operator_value = OP_NEGATE,
            LET a == syntax_node_operate(M, Operand(M, node, 0), value)
            IN Then1(a, FMul(0 - 1, a.v)))

syntax_node_operation_add(M, node, value) ==
    Checked(Deref(M, node).operator_value = OP_PLUS,
            LET a == syntax_node_operate(M, Operand(M, node, 0), value)
                b == syntax_node_operate(M, Operand(M, node, 1), value)
            IN Then2(a, b, FAdd(a.v, b.v)))

syntax_node_operation_subtract(M, node, value) ==
    Checked(Deref(M, node).operator_value = OP_MINUS,
            LET a == syntax_node_operate(M, Operand(M, node, 0), value)
                b == syntax_node_operate(M, Operand(M, node, 1), value)
            IN Then2(a, b, FSub(a.v, b.v)))

syntax_node_operation_multiply(M, node, value) ==
    Checked(Deref(M, node).operator_value = OP_TIMES,
            LET a == syntax_node_operate(M, Operand(M, node, 0), value)
                b == syntax_node_operate(M, Operand(M, node, 1), value)
            IN Then2(a, b, FMul(a.v, b.v)))

syntax_node_operation_divide(M, node, value) ==
    Checked(Deref(M, node).operator_value = OP_DIVIDE,
            LET divisor == syntax_node_operate(M, Operand(M, node, 1), value)
            IN IF divisor.st # "ok" THEN divisor
               ELSE IF divisor.v = 0 THEN Stop("exit")
               ELSE LET a == syntax_node_operate(M, Operand(M, node, 0), value)
                    IN Then1(a, FDiv(a.v, divisor.v)))

syntax_node_operation_power(M, node, value) ==
    Checked(Deref(M, node).operator_value = OP_POWER,
            LET a == syntax_node_operate(M, Operand(M, node, 0), value)
                b == syntax_node_operate(M, Operand(M, node, 1), value)
            IN Then2(a, b, FPow(a.v, b.v)))

syntax_node_operation_exponent(M, node, value) ==
    Checked(Deref(M, node).operator_value = OP_EXP,
            LET a == syntax_node_operate(M, Operand(M, node, 0), value)
            IN Then1(a, FExp(a.v)))

syntax_node_operation_logarithmus_naturalis(M, node, value) ==
    Checked(Deref(M, node).operator_value = OP_LN,
            LET a == syntax_node_operate(M, Operand(M, node, 0), value)
            IN Then1(a, FLn(a.v)))

syntax_node_operation_sine(M, node, value) ==
    Checked(Deref(M, node).operator_value = OP_SIN,
            LET a == syntax_node_operate(M, Operand(M, node, 0), value)
            IN Then1(a, FSin(a.v)))

syntax_node_operation_cosine(M, node, value) ==
    Checked(Deref(M, node).operator_value = OP_COS,
            LET a == syntax_node_operate(M, Operand(M, node, 0), value)
            IN Then1(a, FCos(a.v)))

syntax_node_operation_tangent(M, node, value) ==
    Checked(Deref(M, node).operator_value = OP_TAN,
            LET a == syntax_node_operate(M, Operand(M, node, 0), value)
            IN Then1(a, FTan(a.v)))

syntax_node_operation_x(M, node, value) ==
    Checked(Deref(M, node).operator_value = OP_X_VAR, Val(value))

syntax_node_operation_pi(M, node, value) ==
    Checked(Deref(M, node).operator_value = OP_PI, Val(PI))

syntax_node_operation_e(M, node, value) ==
    Checked(Deref(M, node).operator_value = OP_E, Val(E))

syntax_node_operation_failure(M, node, value) == Stop("assert")

\* operation_list[node->operator_value](node, value)
syntax_node_operate(M, node, value) ==
    LET op == Deref(M, node).operator_value
    IN CASE op = OP_NUMBER -> syntax_node_operation_number_value(M, node, value)
         [] op = OP_NEGATE -> syntax_node_operation_negate(M, node, value)
         [] op = OP_PLUS   -> syntax_node_operation_add(M, node, value)
         [] op = OP_MINUS  -> syntax_node_operation_subtract(M, node, value)
         [] op = OP_TIMES  -> syntax_node_operation_multiply(M, node, value)
         [] op = OP_DIVIDE -> syntax_node_operation_divide(M, node, value)
         [] op = OP_POWER  -> syntax_node_operation_power(M, node, value)
         [] op = OP_EXP    -> syntax_node_operation_exponent(M, node, value)
         [] op = OP_LN     -> syntax_node_operation_logarithmus_naturalis(M, node, value)
         [] op = OP_SIN    -> syntax_node_operation_sine(M, node, value)
         [] op = OP_COS    -> syntax_node_operation_cosine(M, node, value)
         [] op = OP_TAN    -> syntax_node_operation_tangent(M, node, value)
         [] op = OP_X_VAR  -> syntax_node_operation_x(M, node, value)
         [] op = OP_PI     -> syntax_node_operation_pi(M, node, value)
         [] op = OP_E      -> syntax_node_operation_e(M, node, value)
         [] OTHER          -> syntax_node_operation_failure(M, node, value)

-----------------------------------------------------------------------------
(* Condensing: syntax_node_condense.  The result is [M, condensable]: the  *)
(* memory after the call and the int returned.                             *)

RECURSIVE syntax_node_condense(_, _)
RECURSIVE CondenseOperands(_, _, _)
\* the first loop of syntax_node_condense from child i on:
\* condensable *= syntax_node_condense(node->operand[i])
CondenseOperands(S, node, i) ==
    IF ~Running(S.M) \/ i >= Deref(S.M, node).arity THEN S
    ELSE LET c == syntax_node_condense(S.M, Operand(S.M, node, i))
         IN CondenseOperands([M |-> c.M, condensable |-> S.condensable * c.condensable],
                             node, i + 1)

RECURSIVE CondenseDestroy(_, _, _)
\* the second loop of syntax_node_condense from child i on
CondenseDestroy(M, node, i) ==
    IF ~Running(M) \/ i >= Deref(M, node).arity THEN M
    ELSE CondenseDestroy(
             SetOperand(syntax_node_destroy(M, Operand(M, node, i)), node, i, NULL),
             node, i + 1)

\* the body of if (condensable) storing the negated value
CondenseNode_negated(M, node, v) ==
    LET M1 == CondenseDestroy([M EXCEPT !.nodes[node].numeric_value = FNeg(v),
                                        !.nodes[node].operator_value = OP_NUMBER],
                              node, 0)
    IN IF Running(M1) THEN [M1 EXCEPT !.nodes[node].arity = 0] ELSE M1

\* the body of if (condensable), v being what syntax_node_operate(node, 0.0)
\* returned
CondenseNode(M, node, v) ==
    LET M1 == CondenseDestroy([M EXCEPT !.nodes[node].numeric_value = v,
                                        !.nodes[node].operator_value = OP_NUMBER],
                              node, 0)
    IN IF Running(M1) THEN [M1 EXCEPT !.nodes[node].arity = 0] ELSE M1

\* syntax_node_condense that folds a node but never descends into operands
\* that cannot all be folded
syntax_node_condense_root(M, node) ==
    IF ~Running(M) \/ ~syntax_node_is_constant(M, node) THEN [M |-> M, condensable |-> 0]
    ELSE [M |-> CondenseNode(M, node, syntax_node_operate(M, node, 0).v), condensable |-> 1]

syntax_node_condense(M, node) ==
    IF ~Running(M) THEN [M |-> M, condensable |-> 0]
    ELSE IF Deref(M, node).operator_value = OP_X_VAR THEN [M |-> M, condensable |-> 0]
    ELSE LET S == CondenseOperands([M |-> M, condensable |-> 1], node, 0)
             v == syntax_node_operate(S.M, node, 0)
         IN IF ~Running(S.M) \/ S.condensable = 0 THEN S
            ELSE IF v.st # "ok" THEN [M |-> Fault(S.M, v.st), condensable |-> 1]
            ELSE [M |-> CondenseNode(S.M, node, v.v), condensable |-> 1]

-----------------------------------------------------------------------------------------------------------------------------------------------------------------------------------------------------------------------------
(* Differentiation: syntax_node_derive and the derivation_table entries.   *)
(* Each rule is the C function statement by statement.  S is [M, new_node]: *)
(* the memory and the local variable new_node; a path <<i, j>> names        *)
(* new_node->operand[i]->operand[j].  A rule returns [M, ptr]: the memory   *)
(* after the call and the returned pointer.                                 *)

RECURSIVE syntax_node_derive(_, _)

RECURSIVE Follow(_, _, _)
\* p->operand[path[1]]->operand[path[2]]...
Follow(M, p, path) ==
    IF path = <<>> \/ p = NULL THEN p
    ELSE Follow(M, Operand(M, p, Head(path)), Tail(path))

\* SyntaxNode *new_node = syntax_node_construct(op, number), after assert(cond)
NewNode(M, cond, op, number) ==
    LET c == syntax_node_construct(AssertThat(M, cond), op, number)
    IN [M |-> c.M, new_node |-> c.ptr]

\* new_node->operand[..]->operand[i] = r.ptr, r being what the call on the
\* right-hand side returned
Store(S, path, r) ==
    [M |-> SetOperand(r.M, Follow(r.M, S.new_node, SubSeq(path, 1, Len(path) - 1)),
                      path[Len(path)], r.ptr),
     new_node |-> S.new_node]

\* The assignment statements of the rules, i being the operand of node used:
\* new_node->operand[..] = syntax_node_construct(op, number)
Construct(path, op, number) ==
    [call |-> "construct", path |-> path, op |-> op, number |-> number, i |-> 0]
\* new_node->operand[..] = syntax_node_derive(node->operand[i])
Derive(path, i) ==
    [call |-> "derive", path |-> path, op |-> OP_UNKNOWN, number |-> 0, i |-> i]
\* new_node->operand[..] = syntax_node_copy(node->operand[i])
Copy(path, i) ==
    [call |-> "copy", path |-> path, op |-> OP_UNKNOWN, number |-> 0, i |-> i]
\* new_node->operand[..] = syntax_node_derive(syntax_node_copy(node->operand[i]))
DeriveCopy(path, i) ==
    [call |-> "derive_copy", path |-> path, op |-> OP_UNKNOWN, number |-> 0, i |-> i]

\* one assignment statement executed
Assign(S, node, st) ==
    CASE st.call = "construct" ->
             Store(S, st.path, syntax_node_construct(S.M, st.op, st.number))
      [] st.call = "derive" ->
             Store(S, st.path, syntax_node_derive(S.M, Operand(S.M, node, st.i)))
      [] st.call = "copy" ->
             Store(S, st.path, syntax_node_copy(S.M, Operand(S.M, node, st.i)))
      [] st.call = "derive_copy" ->
             LET c == syntax_node_copy(S.M, Operand(S.M, node, st.i))
             IN Store(S, st.path, syntax_node_derive(c.M, c.ptr))

RECURSIVE Statements(_, _, _, _)
\* the statements sts[k..] executed in order; nothing more happens once the
\* process has ended
Statements(S, node, sts, k) ==
    IF ~Running(S.M) \/ k > Len(sts) THEN S
    ELSE Statements(Assign(S, node, sts[k]), node, sts, k + 1)

\* syntax_node_destroy(new_node->operand[..])
DestroyAt(S, path) ==
    [M |-> syntax_node_destroy(S.M, Follow(S.M, S.new_node, path)), new_node |-> S.new_node]
\* return new_node
Return(S) == [M |-> S.M, ptr |-> S.new_node]

derive_number(M, node) ==
    syntax_node_construct(AssertThat(M, Deref(M, node).operator_value = OP_NUMBER),
                          OP_NUMBER, 0)

derive_x(M, node) ==
    syntax_node_construct(AssertThat(M, Deref(M, node).operator_value = OP_X_VAR),
                          OP_NUMBER, 1)

derive_failure(M, node) == [M |-> Fault(M, "assert"), ptr |-> NULL]

derive_negate(M, node) ==
    Return(Statements(
        NewNode(M, Deref(M, node).operator_value = OP_NEGATE, OP_NEGATE, 0), node,
        << Derive(<<0>>, 0) >>, 1))

derive_plus(M, node) ==
    Return(Statements(
        NewNode(M, Deref(M, node).operator_value = OP_PLUS, OP_PLUS, 0), node,
        << Derive(<<0>>, 0),
           Derive(<<1>>, 1) >>, 1))

derive_minus(M, node) ==
    Return(Statements(
        NewNode(M, Deref(M, node).operator_value = OP_MINUS, OP_MINUS, 0), node,
        << Derive(<<0>>, 0),
           Derive(<<1>>, 1) >>, 1))

derive_times(M, node) ==
    Return(Statements(
        NewNode(M, Deref(M, node).operator_value = OP_TIMES, OP_PLUS, 0), node,
        << Construct(<<0>>, OP_TIMES, 0),
           Construct(<<1>>, OP_TIMES, 0),
           Derive(<<0, 0>>, 0),
           Copy(<<0, 1>>, 1),
           Copy(<<1, 0>>, 0),
           Derive(<<1, 1>>, 1) >>, 1))

\* derive_divide with the numerator f'*g + f*g' in place of f'*g - f*g'
derive_divide_sum(M, node) ==
    Return(Statements(
        NewNode(M, Deref(M, node).operator_value = OP_DIVIDE, OP_DIVIDE, 0), node,
        << Construct(<<0>>, OP_PLUS, 0),
           Construct(<<1>>, OP_TIMES, 0),
           Construct(<<0, 0>>, OP_TIMES, 0),
           Construct(<<0, 1>>, OP_TIMES, 0),
           Derive(<<0, 0, 0>>, 0),
           Copy(<<0, 0, 1>>, 1),
           Copy(<<0, 1, 0>>, 0),
           Derive(<<0, 1, 1>>, 1),
           Copy(<<1, 0>>, 1),
           Copy(<<1, 1>>, 1) >>, 1))

derive_divide(M, node) ==
    Return(Statements(
        NewNode(M, Deref(M, node).operator_value = OP_DIVIDE, OP_DIVIDE, 0), node,
        << Construct(<<0>>, OP_MINUS, 0),
           Construct(<<1>>, OP_TIMES, 0),
           Construct(<<0, 0>>, OP_TIMES, 0),
           Construct(<<0, 1>>, OP_TIMES, 0),
           Derive(<<0, 0, 0>>, 0),
           Copy(<<0, 0, 1>>, 1),
           Copy(<<0, 1, 0>>, 0),
           Derive(<<0, 1, 1>>, 1),
           Copy(<<1, 0>>, 1),
           Copy(<<1, 1>>, 1) >>, 1))

\* the body of the if of derive_power: 0 in place of ln(A) * B'
ReplaceLogarithmTerm(S, node) ==
    Statements(DestroyAt(S, <<1, 1>>), node, << Construct(<<1, 1>>, OP_NUMBER, 0) >>, 1)

derive_power(M, node) ==
    LET S == Statements(
                 NewNode(M, Deref(M, node).operator_value = OP_POWER, OP_TIMES, 0), node,
                 << Construct(<<0>>, OP_POWER, 0),
                    Construct(<<1>>, OP_PLUS, 0),
                    \* A ^ B
                    Copy(<<0, 0>>, 0),
                    Copy(<<0, 1>>, 1),
                    \* [A' / A] * [B] + [ln(A)] * [B']
                    Construct(<<1, 0>>, OP_TIMES, 0),
                    Construct(<<1, 1>>, OP_TIMES, 0),
                    \* [A' / A] * [B]
                    Construct(<<1, 0, 0>>, OP_DIVIDE, 0),
                    Copy(<<1, 0, 1>>, 1),
                    \* A' / A
                    Derive(<<1, 0, 0, 0>>, 0),
                    Copy(<<1, 0, 0, 1>>, 0),
                    \* [ln(A)] * B'
                    Construct(<<1, 1, 0>>, OP_LN, 0),
                    Derive(<<1, 1, 1>>, 1),
                    Copy(<<1, 1, 0, 0>>, 0) >>, 1)
    IN IF Running(S.M) /\ syntax_node_is_constant(S.M, Operand(S.M, node, 1))
       THEN Return(ReplaceLogarithmTerm(S, node))
       ELSE Return(S)

derive_exp(M, node) ==
    Return(Statements(
        NewNode(M, Deref(M, node).operator_value = OP_EXP, OP_TIMES, 0), node,
        << DeriveCopy(<<0>>, 0),
           Copy(<<1>>, 0) >>, 1))

derive_ln(M, node) ==
    Return(Statements(
        NewNode(M, Deref(M, node).operator_value = OP_LN, OP_TIMES, 0), node,
        << Derive(<<0>>, 0),
           Construct(<<1>>, OP_DIVIDE, 0),
           Construct(<<1, 0>>, OP_NUMBER, 1),
           Copy(<<1, 1>>, 0) >>, 1))

derive_sine(M, node) ==
    Return(Statements(
        NewNode(M, Deref(M, node).operator_value = OP_SIN, OP_TIMES, 0), node,
        << Derive(<<0>>, 0),
           Construct(<<1>>, OP_COS, 0),
           Copy(<<1, 0>>, 0) >>, 1))

derive_cosine(M, node) ==
    Return(Statements(
        NewNode(M, Deref(M, node).operator_value = OP_COS, OP_TIMES, 0), node,
        << Construct(<<0>>, OP_NUMBER, 0 - 1),
           Construct(<<1>>, OP_TIMES, 0),
           Construct(<<1, 0>>, OP_SIN, 0),
           Derive(<<1, 1>>, 0),
           Copy(<<1, 0, 0>>, 0) >>, 1))

derive_tangent(M, node) ==
    Return(Statements(
        NewNode(M, Deref(M, node).operator_value = OP_TAN, OP_DIVIDE, 0), node,
        << Derive(<<0>>, 0),
           Construct(<<1>>, OP_POWER, 1),
           Construct(<<1, 0>>, OP_COS, 1),
           Construct(<<1, 1>>, OP_NUMBER, 2),
           Copy(<<1, 0, 0>>, 0) >>, 1))

\* derivation_table[node->operator_value](node)
syntax_node_derive(M, node) ==
    IF ~Running(M) THEN [M |-> M, ptr |-> NULL]
    ELSE IF node = NULL THEN [M |-> Fault(M, "crash"), ptr |-> NULL]
    ELSE LET op == Deref(M, node).operator_value
         IN CASE op = OP_NUMBER -> derive_number(M, node)
              [] op = OP_NEGATE -> derive_negate(M, node)
              [] op = OP_PLUS   -> derive_plus(M, node)
              [] op = OP_MINUS  -> derive_minus(M, node)
              [] op = OP_TIMES  -> derive_times(M, node)
              [] op = OP_DIVIDE -> derive_divide(M, node)
              [] op = OP_POWER  -> derive_power(M, node)
              [] op = OP_EXP    -> derive_exp(M, node)
              [] op = OP_LN     -> derive_ln(M, node)
              [] op = OP_SIN    -> derive_sine(M, node)
              [] op = OP_COS    -> derive_cosine(M, node)
              [] op = OP_TAN    -> derive_tangent(M, node)
              [] op = OP_X_VAR  -> derive_x(M, node)
              [] op = OP_PI     -> derive_number(M, node)
              [] op = OP_E      -> derive_number(M, node)
              [] OTHER          -> derive_failure(M, node)

-----------------------------------------------------------------------------
(* Bytecode: enum vm_opcodes, struct vm_code, and the compiler back end.   *)
(* A VMCode is [length, capacity, code]; code holds the length bytes       *)
(* written so far.  No allocation of the back end fails in this model, so  *)
(* every error status it returns is 0.                                     *)

OPC_NUM   == 1
OPC_NEG   == 2
OPC_ADD   == 3
OPC_SUB   == 4
OPC_MULT  == 5
OPC_DIV   == 6
OPC_POW   == 7
OPC_EXP   == 8
OPC_LN    == 9
OPC_SIN   == 10
OPC_COS   == 11
OPC_TAN   == 12
OPC_VAR_X == 13
OPC_PI    == 14
OPC_E     == 15

CODE_LENGTH == 64
GROW_BY == 64
\* sizeof(double)
SIZEOF_DOUBLE == 8

\* operator_to_opcode with an entry for the literal only
operator_to_opcode_literal(op) == IF op = OP_NUMBER THEN OPC_NUM ELSE 0

\* static uint8_t operator_to_opcode[]: an operator without an entry maps to 0
operator_to_opcode(op) ==
    CASE op = OP_NUMBER -> OPC_NUM
      [] op = OP_NEGATE -> OPC_NEG
      [] op = OP_PLUS   -> OPC_ADD
      [] op = OP_MINUS  -> OPC_SUB
      [] op = OP_TIMES  -> OPC_MULT
      [] op = OP_DIVIDE -> OPC_DIV
      [] op = OP_POWER  -> OPC_POW
      [] op = OP_EXP    -> OPC_EXP
      [] op = OP_LN     -> OPC_LN
      [] op = OP_SIN    -> OPC_SIN
      [] op = OP_COS    -> OPC_COS
      [] op = OP_TAN    -> OPC_TAN
      [] op = OP_X_VAR  -> OPC_VAR_X
      [] OTHER          -> 0

RECURSIVE Log2(_)
Log2(m) == IF m < 2 THEN 0 ELSE 1 + Log2(m \div 2)
RECURSIVE Pow2(_)
Pow2(n) == IF n = 0 THEN 1 ELSE 2 * Pow2(n - 1)

\* The high 16 bits (sign, 11 exponent bits, 4 fraction bits) and the next 16
\* fraction bits of the IEEE 754 binary64 form of v; the low 32 bits are 0 for
\* every number of the model.
DoubleHigh(v) ==
    IF v = 0 THEN <<0, 0>>
    ELSE IF v = PosInf THEN <<32752, 0>>
    ELSE IF v = NegInf THEN <<65520, 0>>
    ELSE IF v = NaN THEN <<32760, 0>>
    ELSE LET m    == Abs(v)
             e    == Log2(m)
             frac == (m - Pow2(e)) * Pow2(20 - e)
         IN <<(IF v < 0 THEN 32768 ELSE 0) + (1023 + e) * 16 + (frac \div 65536),
              frac % 65536>>

\* (uint8_t *)&number: the 8 bytes of a double, least significant first
DoubleBytes(v) ==
    LET h == DoubleHigh(v)
    IN <<0, 0, 0, 0, h[2] % 256, h[2] \div 256, h[1] % 256, h[1] \div 256>>

\* *((double*)ptr): the double whose 8 bytes are b; a bit pattern that is no
\* number of the model reads as NaN
BytesDouble(b) ==
    LET hi   == b[8] * 256 + b[7]
        sign == hi \div 32768
        bexp == (hi % 32768) \div 16
        frac == (hi % 16) * 65536 + b[6] * 256 + b[5]
        low0 == b[1] = 0 /\ b[2] = 0 /\ b[3] = 0 /\ b[4] = 0
        e    == bexp - 1023
    IN IF bexp = 0 /\ frac = 0 /\ low0 THEN 0
       ELSE IF bexp = 2047 /\ frac = 0 /\ low0 THEN (IF sign = 1 THEN NegInf ELSE PosInf)
       ELSE IF bexp = 2047 \/ bexp = 0 \/ ~low0 \/ e < 0 THEN NaN
       ELSE IF e > 20 THEN (IF sign = 1 THEN NegInf ELSE PosInf)
       ELSE IF frac % Pow2(20 - e) # 0 THEN NaN
       ELSE LET m == Pow2(e) + (frac \div Pow2(20 - e))
            IN Sat(IF sign = 1 THEN 0 - m ELSE m)

\* K is the VMCode being written: [length, capacity, code, error, fault]
grow_bytecode(K, by) ==
    IF K.length + by > K.capacity THEN [K EXCEPT !.capacity = @ + GROW_BY] ELSE K

write_opcode(K, opcode) ==
    LET K1 == grow_bytecode(K, 1)
    IN [K1 EXCEPT !.code = Append(@, opcode), !.length = @ + 1]

write_number(K, number) ==
    IF ~(K.length > 0) THEN [K EXCEPT !.fault = "assert"]
    ELSE LET K1 == grow_bytecode(K, SIZEOF_DOUBLE)
         IN [K1 EXCEPT !.code = @ \o DoubleBytes(number), !.length = @ + SIZEOF_DOUBLE]

RECURSIVE compile_syntax_node(_, _, _)
RECURSIVE CompileOperands(_, _, _, _)
\* the loop of compile_syntax_node from child i on
CompileOperands(M, node, K, i) ==
    IF K.fault # "none" \/ K.error # 0 \/ i >= Deref(M, node).arity THEN K
    ELSE CompileOperands(M, node, compile_syntax_node(M, Operand(M, node, i), K), i + 1)

compile_syntax_node(M, node, K) ==
    LET opcode == operator_to_opcode(Deref(M, node).operator_value)
        K1 == IF opcode = OPC_NUM THEN write_number(K, Deref(M, node).numeric_value) ELSE K
        K2 == IF K1.fault # "none" \/ K1.error # 0 THEN K1 ELSE write_opcode(K1, opcode)
    IN CompileOperands(M, node, K2, 0)

\* the result is [error, code, fault]; code is the new VMCode, or NULL
compiler_backend(M, tree) ==
    LET K == compile_syntax_node(M, tree, [length |-> 0, capacity |-> CODE_LENGTH,
                                          code |-> <<>>, error |-> 0, fault |-> "none"])
    IN IF K.fault # "none" THEN [error |-> 0, code |-> NULL, fault |-> K.fault]
       ELSE IF K.error # 0 THEN [error |-> 1, code |-> NULL, fault |-> "none"]
       ELSE [error |-> 0, fault |-> "none",
             code |-> [length |-> K.length, capacity |-> K.capacity, code |-> K.code]]

-----------------------------------------------------------------------------
(* The virtual machine.  S is the state of one machine_execute call:       *)
(* [index, stack, capacity, tmp, tmp_i, error, ended, fault, rc, avail];    *)
(* stack holds the count numbers on the NumberStack, ended is set by       *)
(* "goto end".  A read before the start of the byte array is undefined     *)
(* behaviour: fault "ub".  The state a statement leaves is bound by a     *)
(* quantifier over a one-element set (CHOOSE R \in {e(T) : T \in {S}}),     *)
(* so that it is computed once however often the next statement reads it.  *)

NUMBER_STACK_CAPACITY == 2

\* malloc or realloc inside machine_execute: S.avail allocations still
\* succeed, a negative avail meaning that none fails
AllocFails(S) == S.avail = 0
Allocated(S) == IF S.avail > 0 THEN [S EXCEPT !.avail = @ - 1] ELSE S

\* S.rc is the value returned
number_stack_pop(S) ==
    IF ~(0 < Len(S.stack) /\ Len(S.stack) <= S.capacity) THEN [S EXCEPT !.fault = "assert"]
    ELSE LET count  == Len(S.stack) - 1
             popped == [S EXCEPT !.stack = SubSeq(@, 1, count),
                                 !.tmp[S.tmp_i + 1] = S.stack[count + 1]]
             shrink == 4 * count <= S.capacity /\ count > 0
             cap    == IF shrink /\ ~AllocFails(S) THEN 2 * count ELSE S.capacity
         IN IF ~(0 <= count /\ count < cap) THEN [popped EXCEPT !.fault = "assert"]
            ELSE IF shrink /\ AllocFails(S) THEN [popped EXCEPT !.rc = 1]
            ELSE IF shrink THEN [Allocated(popped) EXCEPT !.capacity = cap, !.rc = 0]
            ELSE [popped EXCEPT !.rc = 0]

number_stack_push(S, value) ==
    IF ~(0 <= Len(S.stack) /\ Len(S.stack) <= S.capacity) THEN [S EXCEPT !.fault = "assert"]
    ELSE LET grow == Len(S.stack) = S.capacity
         IN IF grow /\ AllocFails(S)
            THEN (IF 0 < Len(S.stack) THEN [S EXCEPT !.rc = 1]
                  ELSE [S EXCEPT !.fault = "assert"])
            ELSE IF grow
            THEN [Allocated(S) EXCEPT !.stack = Append(@, value),
                                      !.capacity = 2 * Len(S.stack), !.rc = 0]
            ELSE [S EXCEPT !.stack = Append(@, value), !.rc = 0]

\* error = 1; goto end; when the call returned non-0
ErrorIfFailed(S) ==
    IF S.fault = "none" /\ S.rc # 0 THEN [S EXCEPT !.error = 1, !.ended = TRUE] ELSE S

\* #define POP
POP(S) ==
    IF S.fault # "none" \/ S.ended THEN S
    ELSE IF ~(S.tmp_i < MAX_ARITY) THEN [S EXCEPT !.fault = "assert"]
    ELSE CHOOSE R \in {ErrorIfFailed([q EXCEPT !.tmp_i = @ + 1]) : q \in {number_stack_pop(S)}} : TRUE

\* #define PUSH(value)
PUSH(S, value) ==
    IF S.fault # "none" \/ S.ended THEN S
    ELSE CHOOSE R \in {IF r.fault # "none" \/ r.ended THEN r ELSE [r EXCEPT !.tmp_i = 0] :
                         r \in {ErrorIfFailed(q) : q \in {number_stack_push(S, value)}}} : TRUE

\* one round of the while loop of machine_execute, after the error test:
\* S.index is already decremented past the opcode
ExecuteOpcode(code, reg_x, opcode, S) ==
    CASE opcode = OPC_NUM ->
             IF S.index - SIZEOF_DOUBLE + 1 < 0 THEN [S EXCEPT !.fault = "ub"]
             ELSE LET number == BytesDouble(SubSeq(code, S.index - SIZEOF_DOUBLE + 2,
                                                   S.index + 1))
                      P == PUSH(S, number)
                  IN [P EXCEPT !.index = @ - SIZEOF_DOUBLE]
      [] opcode = OPC_NEG   -> CHOOSE R \in {PUSH(P, FNeg(P.tmp[1])) : P \in {POP(S)}} : TRUE
      [] opcode = OPC_ADD   -> CHOOSE R \in {PUSH(P, FAdd(P.tmp[1], P.tmp[2])) : P \in {POP(Q) : Q \in {POP(S)}}} : TRUE
      [] opcode = OPC_SUB   -> CHOOSE R \in {PUSH(P, FSub(P.tmp[1], P.tmp[2])) : P \in {POP(Q) : Q \in {POP(S)}}} : TRUE
      [] opcode = OPC_MULT  -> CHOOSE R \in {PUSH(P, FMul(P.tmp[1], P.tmp[2])) : P \in {POP(Q) : Q \in {POP(S)}}} : TRUE
      [] opcode = OPC_DIV   -> CHOOSE R \in {PUSH(P, FDiv(P.tmp[1], P.tmp[2])) : P \in {POP(Q) : Q \in {POP(S)}}} : TRUE
      [] opcode = OPC_POW   -> CHOOSE R \in {PUSH(P, FPow(P.tmp[1], P.tmp[2])) : P \in {POP(Q) : Q \in {POP(S)}}} : TRUE
      [] opcode = OPC_EXP   -> CHOOSE R \in {PUSH(P, FExp(P.tmp[1])) : P \in {POP(S)}} : TRUE
      [] opcode = OPC_LN    -> CHOOSE R \in {PUSH(P, FLn(P.tmp[1])) : P \in {POP(S)}} : TRUE
      [] opcode = OPC_SIN   -> CHOOSE R \in {PUSH(P, FSin(P.tmp[1])) : P \in {POP(S)}} : TRUE
      [] opcode = OPC_COS   -> CHOOSE R \in {PUSH(P, FCos(P.tmp[1])) : P \in {POP(S)}} : TRUE
      [] opcode = OPC_TAN   -> CHOOSE R \in {PUSH(P, FTan(P.tmp[1])) : P \in {POP(S)}} : TRUE
      [] opcode = OPC_VAR_X -> PUSH(S, reg_x)
      [] opcode = OPC_PI    -> PUSH(S, PI)
      [] opcode = OPC_E     -> PUSH(S, E)
      [] OTHER              -> [S EXCEPT !.error = 1]

RECURSIVE ExecuteLoop(_, _, _)
\* while (index >= 0) { if (error != 0) {goto end;} ... }
ExecuteLoop(code, reg_x, S) ==
    IF S.fault # "none" \/ S.ended \/ S.index < 0 THEN S
    ELSE IF S.error # 0 THEN [S EXCEPT !.ended = TRUE]
    ELSE CHOOSE R \in {ExecuteLoop(code, reg_x, T) :
                          T \in {ExecuteOpcode(code, reg_x, code[S.index + 1],
                                               [S EXCEPT !.index = @ - 1])}} : TRUE

\* what machine_execute leaves once the loop is over or was left with
\* "goto end": assert(stack.count == 1); *result = stack.stack[0]; end:
ExecuteEnd(S, result) ==
    IF S.fault # "none"
    THEN [error |-> S.error, result |-> result, fault |-> S.fault, count |-> Len(S.stack)]
    ELSE IF S.ended
    THEN [error |-> S.error, result |-> result, fault |-> "none", count |-> Len(S.stack)]
    ELSE IF Len(S.stack) # 1
    THEN [error |-> S.error, result |-> result, fault |-> "assert", count |-> Len(S.stack)]
    ELSE [error |-> S.error, result |-> S.stack[1], fault |-> "none", count |-> 1]

\* machine is [code, reg_x]; result is the value of *result before the call;
\* avail is the number of allocations that still succeed, negative when none
\* fails.  The outcome is [error, result, fault, count]: the status returned,
\* *result after the call, and the numbers left on the stack.
machine_execute(machine, result, avail) ==
    LET S0 == [index |-> machine.code.length - 1, stack |-> <<>>,
               capacity |-> NUMBER_STACK_CAPACITY, tmp |-> <<0, 0>>, tmp_i |-> 0,
               error |-> 0, ended |-> FALSE, fault |-> "none", rc |-> 0, avail |-> avail]
    IN ExecuteEnd(IF AllocFails(S0) THEN [S0 EXCEPT !.error = 1, !.ended = TRUE]
                  ELSE ExecuteLoop(machine.code.code, machine.reg_x, Allocated(S0)),
                  result)

\* machine_load_code: the machine with the new code, and the old code
machine_load_code(machine, code) ==
    [machine |-> [machine EXCEPT !.code = code], old_code |-> machine.code]

\* vm_code_copy(original, &error): error is *error before the call and avail
\* is 0 when malloc fails.  A VMCode whose code is NULL is the one of
\* capacity 0 (code <<>>).  The result is [copy, error]: the VMCode returned
\* and *error after the call; the array of a failed copy is never written.
vm_code_copy(original, error, avail) ==
    IF avail = 0 \/ original.capacity = 0
    THEN [copy  |-> [length |-> original.length, capacity |-> original.capacity,
                     code |-> <<>>],
          error |-> 1]
    ELSE [copy  |-> [length |-> original.length, capacity |-> original.capacity,
                     code |-> [i \in 1..original.length |-> original.code[i]]],
          error |-> error]

-----------------------------------------------------------------------------
(* Newton's method: method_iterate.  V is the state of one call:           *)
(* [machine, f_xn, d_xn, iterations, exit_status, at, fault]; at is "loop" *)
(* inside the do-while loop and "end" once control is at the label end.    *)

MAX_ITERATIONS == 100
\* 0.0000001: every non-zero number of the number model has magnitude >= 1
EPSILON == 1

\* fabs(f) < EPSILON
WithinPrecision(f) == f # NaN /\ Abs(f) < EPSILON

\* the locals of method_iterate before the loop
MethodStart(guess) ==
    [machine |-> [code |-> [length |-> 0, capacity |-> 0, code |-> <<>>], reg_x |-> guess],
     f_xn |-> FMax + 3, d_xn |-> FMax + 3, iterations |-> 0, exit_status |-> 0,
     at |-> "loop", fault |-> "none"]

\* the rest of a round once machine_execute has given d for f'(x_n): the
\* variable is updated, the round counted and the loop condition tested;
\* leaving the loop sets exit_status = -1
DerivativeValue(V, d) ==
    IF d.fault # "none" THEN [V EXCEPT !.fault = d.fault]
    ELSE IF d.error # 0
    THEN [V EXCEPT !.d_xn = d.result, !.exit_status = d.error, !.at = "end"]
    ELSE [V EXCEPT !.machine.reg_x = FSub(@, FDiv(V.f_xn, d.result)),
                   !.d_xn = d.result,
                   !.iterations = @ + 1,
                   !.exit_status = IF V.iterations + 1 < MAX_ITERATIONS THEN 0 ELSE 0 - 1,
                   !.at = IF V.iterations + 1 < MAX_ITERATIONS THEN "loop" ELSE "end"]

\* machine_load_code(&machine, derivative); machine_execute(&machine, &d_xn)
NewtonUpdate(V, derivative) ==
    LET V1 == [V EXCEPT !.machine = machine_load_code(@, derivative).machine]
    IN CHOOSE R \in {DerivativeValue(V1, d) :
                        d \in {machine_execute(V1.machine, V1.d_xn, 0 - 1)}} : TRUE

\* the rest of a round once machine_execute has given f for f(x_n)
FunctionValue(V, f, derivative) ==
    IF f.fault # "none" THEN [V EXCEPT !.fault = f.fault]
    ELSE IF f.error # 0
    THEN [V EXCEPT !.f_xn = f.result, !.exit_status = f.error, !.at = "end"]
    ELSE IF WithinPrecision(f.result) THEN [V EXCEPT !.f_xn = f.result, !.at = "end"]
    ELSE NewtonUpdate([V EXCEPT !.f_xn = f.result], derivative)

\* one round of the do-while loop whose counter never advances
DoWhileBody_uncounted(V, function, derivative) ==
    [NewtonUpdate([V EXCEPT !.f_xn = 1], derivative) EXCEPT !.iterations = V.iterations,
                                                           !.at = "loop"]

\* one round of the do-while loop of method_iterate, the loop condition
\* included
DoWhileBody(V, function, derivative) ==
    LET V1 == [V EXCEPT !.machine = machine_load_code(@, function).machine]
    IN CHOOSE R \in {FunctionValue(V1, f, derivative) :
                        f \in {machine_execute(V1.machine, V1.f_xn, 0 - 1)}} : TRUE

-----------------------------------------------------------------------------
(* The parser.  A syntax_node_stack is [stack, capacity]: stack holds the   *)
(* top + 1 pointers in use, bottom first.  X is [M, p]: the process memory  *)
(* and the struct parser [operand_stack, operator_stack, previous_node].    *)
(* The arrays of the stacks are always obtained: only node allocation is    *)
(* limited by M.avail.                                                      *)

STACK_SIZE_DEFAULT == 7

LEFT_ASSOC  == 0
RIGHT_ASSOC == 1

syntax_node_stack_init(capacity) == [stack |-> <<>>, capacity |-> capacity]

\* stack->top < 0
syntax_node_stack_is_empty(stack) == Len(stack.stack) - 1 < 0

syntax_node_stack_is_full(stack) == Len(stack.stack) - 1 >= stack.capacity - 1

syntax_node_stack_top(stack) ==
    IF syntax_node_stack_is_empty(stack) THEN NULL ELSE stack.stack[Len(stack.stack)]

\* which is the member of struct parser that holds the stack
syntax_node_stack_push(X, which, node) ==
    IF ~Running(X.M) THEN X
    ELSE LET stack == X.p[which]
             cap   == IF syntax_node_stack_is_full(stack) THEN stack.capacity * 2
                      ELSE stack.capacity
         IN [X EXCEPT !.p[which] = [stack |-> Append(stack.stack, node), capacity |-> cap]]

\* the pop that halves the capacity instead of trimming it to 2 * top + 1
syntax_node_stack_pop_halved(X, which) ==
    IF ~Running(X.M) THEN [X |-> X, ptr |-> NULL]
    ELSE LET stack == X.p[which]
             top   == Len(stack.stack) - 1
             cap   == IF 4 * top <= stack.capacity THEN stack.capacity \div 2
                      ELSE stack.capacity
         IN IF syntax_node_stack_is_empty(stack)
            THEN [X |-> [X EXCEPT !.M = Fault(@, "exit")], ptr |-> NULL]
            ELSE IF ~(top < cap)
            THEN [X |-> [X EXCEPT !.M = Fault(@, "ub")], ptr |-> NULL]
            ELSE [X |-> [X EXCEPT !.p[which] = [stack |-> SubSeq(stack.stack, 1, top),
                                                capacity |-> cap]],
                  ptr |-> stack.stack[top + 1]]

\* the result is [X, ptr].  realloc keeps the first cap pointers of the
\* array, and stack->stack[stack->top] is read after it: outside the new
\* array the read is undefined.
syntax_node_stack_pop(X, which) ==
    IF ~Running(X.M) THEN [X |-> X, ptr |-> NULL]
    ELSE LET stack == X.p[which]
             top   == Len(stack.stack) - 1
             cap   == IF 4 * top <= stack.capacity THEN 2 * top + 1 ELSE stack.capacity
         IN IF syntax_node_stack_is_empty(stack)
            THEN [X |-> [X EXCEPT !.M = Fault(@, "exit")], ptr |-> NULL]
            ELSE IF ~(top < cap)
            THEN [X |-> [X EXCEPT !.M = Fault(@, "ub")], ptr |-> NULL]
            ELSE [X |-> [X EXCEPT !.p[which] = [stack |-> SubSeq(stack.stack, 1, top),
                                                capacity |-> cap]],
                  ptr |-> stack.stack[top + 1]]

parser_init == [operand_stack  |-> syntax_node_stack_init(STACK_SIZE_DEFAULT),
                operator_stack |-> syntax_node_stack_init(STACK_SIZE_DEFAULT),
                previous_node  |-> NULL]

token_is_function(t) == t \in {OP_EXP, OP_LN, OP_SIN, OP_COS, OP_TAN}

token_is_operator(t) == t \in {OP_NEGATE, OP_PLUS, OP_MINUS, OP_TIMES, OP_DIVIDE, OP_POWER}

token_is_constant(t) == t \in {OP_PI, OP_E}

token_is_variable(t) == t = OP_X_VAR

\* op_assoc with every operator left-associative
op_assoc_left(t) == LEFT_ASSOC
op_assoc(t) ==
    IF t = OP_POWER \/ t = OP_NEGATE \/ token_is_function(t) THEN RIGHT_ASSOC ELSE LEFT_ASSOC

\* the loop of pop_operator taking no operand off the operand stack
PopOperands_none(X, op, i) == X

RECURSIVE PopOperands(_, _, _)
\* the loop of pop_operator with i operands still to pop
PopOperands(X, op, i) ==
    IF ~Running(X.M) \/ ~(i > 0) THEN X
    ELSE IF syntax_node_stack_is_empty(X.p.operand_stack)
    THEN [X EXCEPT !.M = Fault(@, "exit")]
    ELSE LET r == syntax_node_stack_pop(X, "operand_stack")
         IN PopOperands([r.X EXCEPT !.M = SetOperand(@, op, i - 1, r.ptr)], op, i - 1)

pop_operator(X) ==
    LET o == syntax_node_stack_pop(X, "operator_stack")
    IN IF ~Running(o.X.M) THEN o.X
       ELSE syntax_node_stack_push(PopOperands(o.X, o.ptr, Deref(o.X.M, o.ptr).arity),
                                   "operand_stack", o.ptr)

\* syntax_node_stack_top(p->operator_stack)->operator_value
STACK_TOP(X) == Deref(X.M, syntax_node_stack_top(X.p.operator_stack)).operator_value

RECURSIVE pop_operator_stack(_)
pop_operator_stack(X) ==
    IF ~Running(X.M) \/ syntax_node_stack_is_empty(X.p.operator_stack) THEN X
    ELSE IF STACK_TOP(X) = OP_LEFT_BRACE THEN [X EXCEPT !.M = Fault(@, "exit")]
    ELSE pop_operator_stack(pop_operator(X))

RECURSIVE ReduceOperators(_, _)
\* the while loop of the operator branch of parser_parse_node
ReduceOperators(X, token) ==
    IF ~Running(X.M) \/ syntax_node_stack_is_empty(X.p.operator_stack) THEN X
    ELSE LET precedence_current == operator_precedence(token)
             precedence_top     == operator_precedence(STACK_TOP(X))
             CONDITION_A == op_assoc(token) = LEFT_ASSOC
                            /\ precedence_current <= precedence_top
             CONDITION_B == op_assoc(token) = RIGHT_ASSOC
                            /\ precedence_current < precedence_top
         IN IF ~(precedence_current # 0) \/ ~(precedence_top # 0)
            THEN [X EXCEPT !.M = Fault(@, "assert")]
            ELSE IF CONDITION_A \/ CONDITION_B
            THEN ReduceOperators(pop_operator(X), token)
            ELSE X

\* the right-parenthesis branch that drops a parenthesis it cannot match
CloseBrace_dropped(X) == X

RECURSIVE CloseBrace(_)
\* the while loop of the right-parenthesis branch of parser_parse_node, and
\* the exit(1) that follows it
CloseBrace(X) ==
    IF ~Running(X.M) THEN X
    ELSE IF syntax_node_stack_is_empty(X.p.operator_stack)
    THEN [X EXCEPT !.M = Fault(@, "exit")]
    ELSE IF STACK_TOP(X) = OP_LEFT_BRACE
    THEN LET b  == syntax_node_stack_pop(X, "operator_stack")
             X1 == [b.X EXCEPT !.M.freed = @ \cup {b.ptr}]
         IN IF ~syntax_node_stack_is_empty(X1.p.operator_stack)
               /\ token_is_function(STACK_TOP(X1))
            THEN pop_operator(X1)
            ELSE X1
    ELSE CloseBrace(pop_operator(X))

parser_parse_node(X, node) ==
    IF ~Running(X.M) THEN X
    ELSE IF node = NULL THEN [X EXCEPT !.M = Fault(@, "crash")]
    ELSE LET X0    == [X EXCEPT !.p.previous_node = node]
             token == Deref(X.M, node).operator_value
         IN IF token = OP_NUMBER \/ token_is_constant(token) \/ token_is_variable(token)
            THEN syntax_node_stack_push(X0, "operand_stack", node)
            ELSE IF token_is_function(token)
            THEN syntax_node_stack_push(X0, "operator_stack", node)
            ELSE IF token_is_operator(token)
            THEN syntax_node_stack_push(ReduceOperators(X0, token), "operator_stack", node)
            ELSE IF token = OP_LEFT_BRACE
            THEN syntax_node_stack_push(X0, "operator_stack", node)
            ELSE IF token = OP_RIGHT_BRACE
            THEN CloseBrace(X0)
            ELSE [X0 EXCEPT !.M = Fault(@, "exit")]

\* the result is [X, result, syntax_error, operands]: the state after the
\* call, the pointer returned, whether "Syntax Error" was printed, and the
\* number of nodes on the operand stack once every operator is reduced.  A
\* destroyed stack is NULL.
parser_finish(X) ==
    LET X1 == pop_operator_stack(X)
        X2 == [X1 EXCEPT !.p.operator_stack = NULL]
        n  == Len(X1.p.operand_stack.stack)
    IN IF ~Running(X1.M)
       THEN [X |-> X1, result |-> NULL, syntax_error |-> FALSE, operands |-> n]
       ELSE IF n - 1 > 1
       THEN [X |-> X2, result |-> NULL, syntax_error |-> TRUE, operands |-> n]
       ELSE [X |-> [X2 EXCEPT !.p.operand_stack = NULL],
             result |-> syntax_node_stack_top(X1.p.operand_stack),
             syntax_error |-> FALSE, operands |-> n]

-----------------------------------------------------------------------------
(* Expression trees as values, used to choose inputs and to read results   *)
(* back from memory: [op, val, kids], kids holding one tree per child.     *)

T(op, val, kids) == [op |-> op, val |-> val, kids |-> kids]
Num(v) == T(OP_NUMBER, v, <<>>)

LiteralValues == {5}
LeafTrees == {Num(v) : v \in LiteralValues} \cup {T(op, 0, <<>>) : op \in {OP_X_VAR, OP_PI, OP_E}}
UnaryOps  == {OP_NEGATE, OP_EXP, OP_LN, OP_SIN, OP_COS, OP_TAN}
BinaryOps == {OP_PLUS, OP_MINUS, OP_TIMES, OP_DIVIDE, OP_POWER}

RECURSIVE TreesOfSize(_)
\* every finished tree with exactly n nodes
TreesOfSize(n) ==
    IF n = 1 THEN LeafTrees
    ELSE {T(op, 0, <<t>>) : op \in UnaryOps, t \in TreesOfSize(n - 1)}
         \cup UNION {{T(op, 0, <<l, r>>) : op \in BinaryOps,
                                          l \in TreesOfSize(k),
                                          r \in TreesOfSize(n - 1 - k)} : k \in 1..(n - 2)}

TreeSet == UNION {TreesOfSize(n) : n \in 1..MaxNodes}

RECURSIVE HasVariable(_)
\* some node of the tree is the variable node
HasVariable(t) ==
    t.op = OP_X_VAR \/ \E i \in 1..Len(t.kids) : HasVariable(t.kids[i])

RECURSIVE TreeSize(_)
TreeSize(t) ==
    IF Len(t.kids) = 0 THEN 1
    ELSE IF Len(t.kids) = 1 THEN 1 + TreeSize(t.kids[1])
    ELSE 1 + TreeSize(t.kids[1]) + TreeSize(t.kids[2])

RECURSIVE BuildTree(_, _)
RECURSIVE BuildOperands(_, _, _, _)
BuildOperands(M, node, t, i) ==
    IF i >= Len(t.kids) THEN [M |-> M, ptr |-> node]
    ELSE LET c == BuildTree(M, t.kids[i + 1])
         IN BuildOperands(SetOperand(c.M, node, i, c.ptr), node, t, i + 1)

\* the tree t built in memory, node by node, as the tokenizer and parser do
BuildTree(M, t) ==
    LET n == syntax_node_construct(M, t.op, t.val)
    IN BuildOperands(n.M, n.ptr, t, 0)

RECURSIVE TreeOf(_, _)
\* the tree rooted at address p, read from memory; the operator of an absent
\* node reads -1 and that of a freed node -2, which are no operator_type
TreeOf(M, p) ==
    IF p = NULL THEN T(0 - 1, 0, <<>>)
    ELSE IF p \in M.freed THEN T(0 - 2, 0, <<>>)
    ELSE T(Deref(M, p).operator_value, Deref(M, p).numeric_value,
           [i \in 1..Deref(M, p).arity |-> TreeOf(M, Operand(M, p, i - 1))])

RECURSIVE NodesOf(_, _)
\* the addresses of the nodes of the tree rooted at p
NodesOf(M, p) ==
    IF p = NULL THEN {}
    ELSE {p} \cup UNION {NodesOf(M, Operand(M, p, i - 1)) : i \in 1..Deref(M, p).arity}

RECURSIVE CountNodes(_, _)
\* the number of node slots of the tree rooted at p (a shared node counts twice)
CountNodes(M, p) ==
    IF p = NULL THEN 0
    ELSE IF Deref(M, p).arity = 0 THEN 1
    ELSE IF Deref(M, p).arity = 1 THEN 1 + CountNodes(M, Operand(M, p, 0))
    ELSE 1 + CountNodes(M, Operand(M, p, 0)) + CountNodes(M, Operand(M, p, 1))

RECURSIVE Shape(_)
\* a tree without the payload of its non-literal nodes, which no reader uses
Shape(t) == T(t.op, IF t.op = OP_NUMBER THEN t.val ELSE 0,
              [i \in 1..Len(t.kids) |-> Shape(t.kids[i])])

\* what stands for a tree when the process ended before it was read
Aborted == T(0 - 3, 0, <<>>)

\* what syntax_node_derive returns for the tree t: the shape of the derivative,
\* or Aborted when the call does not return
DerivativeOf(t) ==
    LET b == BuildTree(EmptyMemory, t)
        d == syntax_node_derive(b.M, b.ptr)
    IN IF Running(d.M) THEN Shape(TreeOf(d.M, d.ptr)) ELSE Aborted

-----------------------------------------------------------------------------
(* SpecTree: the tree functions applied to every finished tree of up to    *)
(* MaxNodes nodes.                                                         *)

NoParser == [operand_stack |-> <<>>, operator_stack |-> <<>>, previous_node |-> NULL]
NoOut == [call |-> "none"]

InitTree ==
    \E t \in TreeSet :
        LET b == BuildTree(EmptyMemory, t)
        IN /\ pc = "tree"
           /\ input = t
           /\ mem = b.M
           /\ function_tree = b.ptr
           /\ derivative_tree = NULL
           /\ parser = NoParser
           /\ out = NoOut

\* derivative_tree = syntax_node_derive(function_tree)
TreeDerive ==
    /\ pc = "tree"
    /\ LET d == syntax_node_derive(mem, function_tree)
       IN /\ mem' = d.M
          /\ derivative_tree' = d.ptr
          /\ out' = [call |-> "derive", before |-> mem]
    /\ pc' = "derived"
    /\ UNCHANGED <<input, parser, function_tree>>

\* syntax_node_destroy of one of the two trees after a derivation
TreeDestroy ==
    /\ pc = "derived"
    /\ Running(mem)
    /\ \E which \in {"function", "derivative"} :
          /\ mem' = syntax_node_destroy(mem, IF which = "function" THEN function_tree
                                             ELSE derivative_tree)
          /\ out' = [call |-> "destroy", which |-> which, before |-> mem]
    /\ pc' = "destroyed"
    /\ UNCHANGED <<input, parser, function_tree, derivative_tree>>

\* syntax_node_is_constant(function_tree)
TreeIsConstant ==
    /\ pc = "tree"
    /\ out' = [call |-> "is_constant",
               is_constant |-> syntax_node_is_constant(mem, function_tree)]
    /\ pc' = "is_constant"
    /\ UNCHANGED <<mem, input, parser, function_tree, derivative_tree>>

\* values given to the variable x
XValues == {0, 4}
\* *result before machine_execute writes it: no number of the model
Unset == FMax + 3

\* compiler_backend(function_tree, &code)
TreeCompile ==
    /\ pc = "tree"
    /\ LET c == compiler_backend(mem, function_tree)
       IN /\ out' = [call |-> "compile", error |-> c.error, code |-> c.code]
          /\ mem' = Fault(mem, c.fault)
    /\ pc' = "compiled"
    /\ UNCHANGED <<input, parser, function_tree, derivative_tree>>

\* machine_load_code(&machine, *code); machine.reg_x = x; machine_execute
TreeExecute ==
    /\ pc = "compiled"
    /\ Running(mem)
    /\ out.error = 0
    /\ \E x \in XValues :
          LET empty   == [length |-> 0, capacity |-> 0, code |-> <<>>]
              machine == machine_load_code([code |-> empty, reg_x |-> x], out.code).machine
              r       == machine_execute(machine, Unset, 0 - 1)
          IN /\ out' = [call |-> "execute", machine |-> machine, error |-> r.error,
                        result |-> r.result, count |-> r.count]
             /\ mem' = Fault(mem, r.fault)
    /\ pc' = "executed"
    /\ UNCHANGED <<input, parser, function_tree, derivative_tree>>

\* syntax_node_operate(function_tree, x)
TreeOperate ==
    /\ pc = "tree"
    /\ \E x \in XValues :
          LET r == syntax_node_operate(mem, function_tree, x)
          IN /\ out' = [call |-> "operate", x |-> x, st |-> r.st, v |-> r.v]
             /\ mem' = IF r.st = "ok" THEN mem ELSE Fault(mem, r.st)
    /\ pc' = "operated"
    /\ UNCHANGED <<input, parser, function_tree, derivative_tree>>

\* syntax_node_condense(function_tree), as main does after parsing; it may
\* be applied again to the condensed tree
TreeCondense ==
    /\ pc \in {"tree", "condensed"}
    /\ Running(mem)
    /\ LET c == syntax_node_condense(mem, function_tree)
       IN /\ mem' = c.M
          /\ out' = [call |-> "condense", condensable |-> c.condensable, before |-> mem,
                     first |-> IF pc = "tree" THEN NoOut ELSE out]
    /\ pc' = IF pc = "tree" THEN "condensed" ELSE "condensed_twice"
    /\ UNCHANGED <<input, parser, function_tree, derivative_tree>>

\* copy = syntax_node_copy(function_tree); avail is the number of node
\* allocations that succeed during the copy before one fails, -1: none fails
TreeCopy ==
    /\ pc = "tree"
    /\ \E avail \in {0 - 1, 0, 2, 3} :
          LET c == syntax_node_copy([mem EXCEPT !.avail = avail], function_tree)
          IN /\ mem' = c.M
             /\ out' = [call |-> "copy", copy |-> c.ptr, avail |-> avail, before |-> mem]
    /\ pc' = "copied"
    /\ UNCHANGED <<input, parser, function_tree, derivative_tree>>

\* syntax_node_destroy or syntax_node_condense applied to the original or to
\* its copy
TreeUseCopy ==
    /\ pc = "copied"
    /\ Running(mem)
    /\ out.copy # NULL
    /\ \E which \in {"original", "copy"}, how \in {"destroy", "condense"} :
          LET node == IF which = "original" THEN function_tree ELSE out.copy
          IN /\ mem' = IF how = "destroy" THEN syntax_node_destroy(mem, node)
                       ELSE syntax_node_condense(mem, node).M
             /\ out' = [call |-> how, which |-> which, copy |-> out.copy, before |-> mem]
    /\ pc' = "copy_used"
    /\ UNCHANGED <<input, parser, function_tree, derivative_tree>>

\* compiler_backend(tree, &code) in main, reached only when called is true
MainCompile(M, tree, called) ==
    IF called /\ Running(M) THEN compiler_backend(M, tree)
    ELSE [error |-> 0, code |-> NULL, fault |-> "none"]

\* main between the parse and method_iterate: syntax_node_condense
\* (function_tree); derivative_tree = syntax_node_derive(function_tree);
\* syntax_node_condense(derivative_tree); compiler_backend of the function
\* and, when that succeeded, of the derivative.  out.compiled is the number
\* of calls of compiler_backend made.
TreePipeline ==
    /\ pc = "tree"
    /\ \E c1 \in {syntax_node_condense(mem, function_tree)} :
       \E d  \in {syntax_node_derive(c1.M, function_tree)} :
       \E c2 \in {syntax_node_condense(d.M, d.ptr)} :
       \E k1 \in {MainCompile(c2.M, function_tree, TRUE)} :
       \E k2 \in {MainCompile(Fault(c2.M, k1.fault), d.ptr, k1.error = 0)} :
          /\ mem' = Fault(Fault(c2.M, k1.fault), k2.fault)
          /\ derivative_tree' = d.ptr
          /\ out' = [call |-> "pipeline",
                     compiled |-> IF ~Running(c2.M) THEN 0
                                  ELSE IF k1.fault # "none" \/ k1.error # 0 THEN 1 ELSE 2,
                     function_vm_code |-> k1.code, derivative_vm_code |-> k2.code,
                     error |-> IF k1.error # 0 THEN k1.error ELSE k2.error]
    /\ pc' = "pipelined"
    /\ UNCHANGED <<input, parser, function_tree>>

NextTree ==
    \/ TreeDerive \/ TreeDestroy \/ TreeIsConstant \/ TreeCompile \/ TreeExecute
    \/ TreeOperate \/ TreeCondense \/ TreeCopy \/ TreeUseCopy \/ TreePipeline

SpecTree == InitTree /\ [][NextTree]_vars

-----------------------------------------------------------------------------
(* SpecVM: machine_execute on byte sequences that need not come from the   *)
(* compiler, with allocation allowed to fail.                              *)

\* bytes put in opcode position: the opcodes of negate, add, divide, x, pi
\* and e, and bytes that are no opcode
ByteValues == {0, OPC_NEG, OPC_ADD, OPC_DIV, OPC_VAR_X, OPC_PI, OPC_E, 16, 255}
\* what a sequence is made of: one byte, or the 8 bytes of a literal followed
\* by OPC_NUM
CodeItems == {<<b>> : b \in ByteValues}
             \cup {DoubleBytes(v) \o <<OPC_NUM>> : v \in {0, 2}}

RECURSIVE CodesOf(_)
\* the byte sequences made of at most n items
CodesOf(n) ==
    IF n = 0 THEN {<<>>}
    ELSE LET shorter == CodesOf(n - 1)
         IN shorter \cup {c \o i : c \in shorter, i \in CodeItems}

InitVM ==
    /\ pc = "vm"
    /\ input \in CodesOf(MaxItems)
    /\ mem = EmptyMemory
    /\ parser = NoParser
    /\ function_tree = NULL
    /\ derivative_tree = NULL
    /\ out = NoOut

\* machine_load_code(&machine, code); machine.reg_x = x;
\* machine_execute(&machine, &result); avail allocations succeed before one
\* fails, -1: none fails.  machine_execute only reads *machine, so that
\* out.machine is the machine before and after the call.
VMExecute ==
    /\ pc = "vm"
    /\ \E x \in XValues, avail \in {0 - 1, 0, 1, 2} :
          LET empty   == [length |-> 0, capacity |-> 0, code |-> <<>>]
              code    == [length |-> Len(input), capacity |-> Len(input), code |-> input]
              machine == machine_load_code([code |-> empty, reg_x |-> x], code).machine
              r       == machine_execute(machine, Unset, avail)
          IN /\ out' = [call |-> "execute", machine |-> machine, avail |-> avail,
                        error |-> r.error, result |-> r.result, count |-> r.count]
             /\ mem' = Fault(mem, r.fault)
    /\ pc' = "vm_done"
    /\ UNCHANGED <<input, parser, function_tree, derivative_tree>>

\* copy = vm_code_copy(code, &error), with *error holding 0 or 7 before
VMCopy ==
    /\ pc = "vm"
    /\ \E error \in {0, 7}, avail \in {0 - 1, 0} :
          LET original == [length |-> Len(input), capacity |-> Len(input), code |-> input]
              r        == vm_code_copy(original, error, avail)
          IN out' = [call |-> "vm_code_copy", original |-> original, avail |-> avail,
                     error_before |-> error, error |-> r.error, copy |-> r.copy]
    /\ pc' = "vm_copied"
    /\ UNCHANGED <<mem, input, parser, function_tree, derivative_tree>>

NextVM == VMExecute \/ VMCopy

SpecVM == InitVM /\ [][NextVM]_vars

-----------------------------------------------------------------------------
(* SpecMethod: method_iterate, one round of its loop at a time.            *)

\* the 8 bytes of a literal followed by OPC_NUM
LiteralCode(v) == DoubleBytes(v) \o <<OPC_NUM>>

\* byte sequences given as function and as derivative: x, 2, 0, x + 2,
\* x * x, 2 * x, 4 / x, a sequence that fails with an unknown byte, and one
\* that fails an assertion
MethodCodes ==
    { <<OPC_VAR_X>>,
      LiteralCode(2),
      LiteralCode(0),
      <<OPC_ADD, OPC_VAR_X>> \o LiteralCode(2),
      <<OPC_MULT, OPC_VAR_X, OPC_VAR_X>>,
      <<OPC_MULT>> \o LiteralCode(2) \o <<OPC_VAR_X>>,
      <<OPC_DIV>> \o LiteralCode(4) \o <<OPC_VAR_X>>,
      <<0, OPC_VAR_X>>,
      <<OPC_NEG>> }

CodeOf(bytes) == [length |-> Len(bytes), capacity |-> Len(bytes), code |-> bytes]

InitMethod ==
    /\ pc = "method"
    /\ \E function \in MethodCodes, derivative \in MethodCodes, guess \in {0 - 3, 0, 4} :
          /\ input = [function |-> CodeOf(function), derivative |-> CodeOf(derivative),
                      guess |-> guess]
          /\ out = MethodStart(guess)
    /\ mem = EmptyMemory
    /\ parser = NoParser
    /\ function_tree = NULL
    /\ derivative_tree = NULL

\* one round of the loop of method_iterate
MethodRound ==
    /\ pc = "method"
    /\ Running(mem)
    /\ out.at = "loop"
    /\ out' = DoWhileBody(out, input.function, input.derivative)
    /\ mem' = Fault(mem, out'.fault)
    /\ UNCHANGED <<pc, input, parser, function_tree, derivative_tree>>

\* end: if (error) {*error = exit_status;} return machine.reg_x;
MethodReturn ==
    /\ pc = "method"
    /\ Running(mem)
    /\ out.at = "end"
    /\ out' = [call |-> "method_iterate", error |-> out.exit_status,
               result |-> out.machine.reg_x, iterations |-> out.iterations,
               f_xn |-> out.f_xn, d_xn |-> out.d_xn]
    /\ pc' = "method_done"
    /\ UNCHANGED <<mem, input, parser, function_tree, derivative_tree>>

NextMethod == MethodRound \/ MethodReturn

\* the process keeps executing the call until it returns
SpecMethod == InitMethod /\ [][NextMethod]_vars /\ WF_vars(NextMethod)

-----------------------------------------------------------------------------
(* SpecStack: a node stack of the parser and the machine's number stack,   *)
(* pushed and popped in any order.  The operand stack stands for both node *)
(* stacks, which are the same struct under the same functions.  parser     *)
(* holds the node stacks, out the number stack, input the last call with   *)
(* the capacity it found; the n-th element of a stack is pushed as the     *)
(* number n.                                                               *)

InitStack ==
    /\ pc = "stack"
    /\ input = [call |-> "init", which |-> "none", capacity |-> 0, ptr |-> NULL]
    /\ mem = EmptyMemory
    /\ parser = parser_init
    /\ function_tree = NULL
    /\ derivative_tree = NULL
    /\ out = [index |-> 0, stack |-> <<>>, capacity |-> NUMBER_STACK_CAPACITY,
              tmp |-> <<0, 0>>, tmp_i |-> 0, error |-> 0, ended |-> FALSE,
              fault |-> "none", rc |-> 0, avail |-> 0 - 1]

\* syntax_node_stack_push(stack, node)
NodePush ==
    /\ pc = "stack" /\ Running(mem)
    /\ \E which \in {"operand_stack"} :
          /\ Len(parser[which].stack) < MaxDepth
          /\ \E X \in {syntax_node_stack_push([M |-> mem, p |-> parser], which,
                                                Len(parser[which].stack) + 1)} :
                /\ mem' = X.M
                /\ parser' = X.p
          /\ input' = [call |-> "node_push", which |-> which,
                       capacity |-> parser[which].capacity, ptr |-> NULL]
    /\ UNCHANGED <<pc, function_tree, derivative_tree, out>>

\* ptr = syntax_node_stack_pop(stack)
NodePop ==
    /\ pc = "stack" /\ Running(mem)
    /\ \E which \in {"operand_stack"} :
       \E r \in {syntax_node_stack_pop([M |-> mem, p |-> parser], which)} :
          /\ mem' = r.X.M
          /\ parser' = r.X.p
          /\ input' = [call |-> "node_pop", which |-> which,
                       capacity |-> parser[which].capacity, ptr |-> r.ptr]
    /\ UNCHANGED <<pc, function_tree, derivative_tree, out>>

\* number_stack_push(&stack, value); realloc fails when avail is 0
NumberPush ==
    /\ pc = "stack" /\ Running(mem)
    /\ Len(out.stack) < MaxDepth
    /\ \E avail \in {0 - 1, 0} :
       \E S \in {number_stack_push([out EXCEPT !.avail = avail], Len(out.stack) + 1)} :
          /\ out' = S
          /\ mem' = Fault(mem, S.fault)
    /\ input' = [call |-> "number_push", which |-> "number_stack",
                 capacity |-> out.capacity, ptr |-> NULL]
    /\ UNCHANGED <<pc, parser, function_tree, derivative_tree>>

\* number_stack_pop(&stack, &tmp[0]); realloc fails when avail is 0
NumberPop ==
    /\ pc = "stack" /\ Running(mem)
    /\ \E avail \in {0 - 1, 0} :
       \E S \in {number_stack_pop([out EXCEPT !.avail = avail])} :
          /\ out' = S
          /\ mem' = Fault(mem, S.fault)
    /\ input' = [call |-> "number_pop", which |-> "number_stack",
                 capacity |-> out.capacity, ptr |-> NULL]
    /\ UNCHANGED <<pc, parser, function_tree, derivative_tree>>

NextStack == NodePush \/ NodePop \/ NumberPush \/ NumberPop

SpecStack == InitStack /\ [][NextStack]_vars

-----------------------------------------------------------------------------
(* Spec: the parser fed one token node at a time, as the front end feeds   *)
(* it, and then finished.                                                  *)

TokenOps == {OP_X_VAR, OP_NEGATE, OP_PLUS, OP_MINUS, OP_TIMES, OP_POWER, OP_SIN,
             OP_LEFT_BRACE, OP_RIGHT_BRACE, OP_UNKNOWN}
Tokens == {[op |-> OP_NUMBER, val |-> v] : v \in {2, 3}}
          \cup {[op |-> op, val |-> 0] : op \in TokenOps}

Init ==
    /\ pc = "parsing"
    /\ mem = EmptyMemory
    /\ input = <<>>
    /\ parser = parser_init
    /\ function_tree = NULL
    /\ derivative_tree = NULL
    /\ out = NoOut

\* parser_parse_node(p, syntax_node_construct(op, val)) for the next token
ParseNode ==
    /\ pc = "parsing"
    /\ Running(mem)
    /\ Len(input) < MaxTokens
    /\ \E token \in Tokens :
          LET n == syntax_node_construct(mem, token.op, token.val)
              X == parser_parse_node([M |-> n.M, p |-> parser], n.ptr)
          IN /\ mem' = X.M
             /\ parser' = X.p
             /\ input' = Append(input, token)
    /\ UNCHANGED <<pc, function_tree, derivative_tree, out>>

\* function_tree = parser_finish(p)
Finish ==
    /\ pc = "parsing"
    /\ Running(mem)
    /\ LET r == parser_finish([M |-> mem, p |-> parser])
       IN /\ mem' = r.X.M
          /\ parser' = r.X.p
          /\ function_tree' = r.result
          /\ out' = [call |-> "finish", syntax_error |-> r.syntax_error,
                     operands |-> r.operands]
    /\ pc' = "finished"
    /\ UNCHANGED <<input, derivative_tree>>

Next == ParseNode \/ Finish

Spec == Init /\ [][Next]_vars

-----------------------------------------------------------------------------
(* Claims about syntax_node_is_constant and syntax_node_derive (SpecTree)  *)

Child(t, i) == t.kids[i]
ChildAborts(t) == \E i \in 1..Len(t.kids) : DerivativeOf(Child(t, i)) = Aborted
Derived == Shape(TreeOf(mem, derivative_tree))

\* C2: syntax_node_is_constant(node) returns true if and only if no node of
\* the subtree rooted at node, the right child of a binary operator included,
\* is the variable node.
C2_IsConstantIffNoVariable ==
    pc = "is_constant" => (out.is_constant <=> ~HasVariable(input))

\* C3: for every exp node exp(f), syntax_node_derive returns
\* multiply(f', exp(f)): the second factor is an exp node over a copy of f.
C3_ExpRule ==
    (pc = "derived" /\ input.op = OP_EXP /\ ~ChildAborts(input))
        => /\ Running(mem)
           /\ Derived = T(OP_TIMES, 0, <<DerivativeOf(Child(input, 1)),
                                         T(OP_EXP, 0, <<Child(input, 1)>>)>>)

\* C4: for every power node f^g, syntax_node_derive returns
\* f^g * ((f'/f)*g + T), T being the literal 0 exactly when g holds no variable
\* node and ln(f)*g' whenever g holds the variable node anywhere.
C4_PowerRule ==
    (pc = "derived" /\ input.op = OP_POWER /\ ~ChildAborts(input))
        => LET f  == Child(input, 1)
               g  == Child(input, 2)
               tt == IF HasVariable(g)
                     THEN T(OP_TIMES, 0, <<T(OP_LN, 0, <<f>>), DerivativeOf(g)>>)
                     ELSE Num(0)
           IN /\ Running(mem)
              /\ Derived = T(OP_TIMES, 0,
                             <<T(OP_POWER, 0, <<f, g>>),
                               T(OP_PLUS, 0,
                                 <<T(OP_TIMES, 0,
                                     <<T(OP_DIVIDE, 0, <<DerivativeOf(f), f>>), g>>),
                                   tt>>)>>)

\* C5: syntax_node_derive of a numeric literal, a pi node or an e node returns
\* a new literal 0, of the variable node a new literal 1, and none of the four
\* fails an assertion.
C5_LeafRules ==
    pc = "derived" =>
        /\ input.op \in {OP_NUMBER, OP_PI, OP_E}
              => Running(mem) /\ TreeOf(mem, derivative_tree) = Num(0)
        /\ input.op = OP_X_VAR
              => Running(mem) /\ TreeOf(mem, derivative_tree) = Num(1)

RuleOps == {OP_NEGATE, OP_PLUS, OP_MINUS, OP_TIMES, OP_DIVIDE, OP_LN, OP_SIN, OP_COS, OP_TAN}

\* the tree the dispatch table's rule builds for t, from the recursive
\* derivatives of t's children and copies of the children
RuleShape(t) ==
    LET f  == Child(t, 1)
        g  == Child(t, 2)
        df == DerivativeOf(f)
        dg == DerivativeOf(g)
    IN CASE t.op = OP_NEGATE -> T(OP_NEGATE, 0, <<df>>)
         [] t.op = OP_PLUS   -> T(OP_PLUS, 0, <<df, dg>>)
         [] t.op = OP_MINUS  -> T(OP_MINUS, 0, <<df, dg>>)
         [] t.op = OP_TIMES  -> T(OP_PLUS, 0, <<T(OP_TIMES, 0, <<df, g>>),
                                                T(OP_TIMES, 0, <<f, dg>>)>>)
         [] t.op = OP_DIVIDE -> T(OP_DIVIDE, 0,
                                  <<T(OP_MINUS, 0, <<T(OP_TIMES, 0, <<df, g>>),
                                                     T(OP_TIMES, 0, <<f, dg>>)>>),
                                    T(OP_TIMES, 0, <<g, g>>)>>)
         [] t.op = OP_LN     -> T(OP_TIMES, 0, <<df, T(OP_DIVIDE, 0, <<Num(1), f>>)>>)
         [] t.op = OP_SIN    -> T(OP_TIMES, 0, <<df, T(OP_COS, 0, <<f>>)>>)
         [] t.op = OP_COS    -> T(OP_TIMES, 0, <<Num(0 - 1),
                                                 T(OP_TIMES, 0, <<T(OP_SIN, 0, <<f>>), df>>)>>)
         [] t.op = OP_TAN    -> T(OP_DIVIDE, 0,
                                  <<df, T(OP_POWER, 0, <<T(OP_COS, 0, <<f>>), Num(2)>>)>>)

RECURSIVE WellFormedTree(_)
\* no absent or freed node, and as many children as the operator's arity
WellFormedTree(t) ==
    /\ t.op \notin {0 - 1, 0 - 2}
    /\ Len(t.kids) = operator_arity(t.op)
    /\ \A i \in 1..Len(t.kids) : WellFormedTree(t.kids[i])

\* C7: syntax_node_derive leaves its input tree unchanged and returns a tree
\* of newly allocated nodes only, none shared with the input (or used twice),
\* so that destroying either tree leaves the other intact.
C7_DeriveFrame ==
    /\ pc = "derived" =>
          LET old == 1..Len(out.before.nodes)
              new == NodesOf(mem, derivative_tree)
          IN /\ \A a \in old : mem.nodes[a] = out.before.nodes[a]
             /\ mem.freed \cap old = out.before.freed
             /\ TreeOf(mem, function_tree) = input
             /\ Running(mem) =>
                   /\ new \cap old = {}
                   /\ new \cap mem.freed = {}
                   /\ Cardinality(new) = CountNodes(mem, derivative_tree)
                   /\ WellFormedTree(TreeOf(mem, derivative_tree))
    /\ pc = "destroyed" =>
          LET other == IF out.which = "function" THEN derivative_tree ELSE function_tree
          IN /\ TreeOf(mem, other) = TreeOf(out.before, other)
             /\ WellFormedTree(TreeOf(mem, other))
             /\ NodesOf(mem, other) \cap mem.freed = {}

C7_Witness ==
    /\ pc = "destroyed"
    /\ out.which = "derivative"
    /\ input.op = OP_POWER
    /\ HasVariable(input)
    /\ TreeOf(mem, function_tree) = input
    /\ TreeOf(mem, derivative_tree).op = 0 - 2

-----------------------------------------------------------------------------
(* Claims about the compiler back end and the virtual machine (SpecTree)   *)

\* C1: for every finished tree and every value x of the variable, compiling
\* the tree with compiler_backend, loading the code and running
\* machine_execute with reg_x = x succeeds and yields the value that
\* syntax_node_operate returns for the tree at x.
C1_CompileExecuteAgrees ==
    /\ pc = "compiled" => Running(mem) /\ out.error = 0 /\ out.code # NULL
    /\ pc = "executed" =>
          LET v == syntax_node_operate(mem, function_tree, out.machine.reg_x)
          IN v.st = "ok" => Running(mem) /\ out.error = 0 /\ out.result = v.v

-----------------------------------------------------------------------------
(* Claims about the parser (Spec)                                          *)

Tok(op) == [op |-> op, val |-> 0]
Lit(v) == [op |-> OP_NUMBER, val |-> v]
Operands == {tk \in Tokens : tk.op \in {OP_NUMBER, OP_X_VAR}}
Leaf(tk) == T(tk.op, tk.val, <<>>)
IsPrefix(s, t) == Len(s) <= Len(t) /\ s = SubSeq(t, 1, Len(s))

\* C8: parser_finish reports a syntax failure and returns no tree whenever,
\* once all remaining operators are reduced, the operand stack holds more than
\* one node (exactly two included); it returns a tree only when exactly one
\* operand remains.
C8_FinishSyntaxFailure ==
    (pc = "finished" /\ Running(mem)) =>
        /\ out.operands > 1 => out.syntax_error /\ function_tree = NULL
        /\ function_tree # NULL => out.operands = 1

\* ( a + b ) * c
GroupStream(a, b, c) ==
    <<Tok(OP_LEFT_BRACE), a, Tok(OP_PLUS), b, Tok(OP_RIGHT_BRACE), Tok(OP_TIMES), c>>

\* C9: the tokens ( a + b ) * c fed to parser_parse_node one by one are all
\* accepted without an abort, and parser_finish then returns
\* times(plus(a, b), c) without a syntax failure.
C9_GroupIsOneOperand ==
    \A a, b, c \in Operands :
        IsPrefix(input, GroupStream(a, b, c)) =>
            /\ pc = "parsing" => Running(mem)
            /\ (pc = "finished" /\ input = GroupStream(a, b, c)) =>
                  /\ Running(mem) /\ ~out.syntax_error
                  /\ TreeOf(mem, function_tree)
                        = T(OP_TIMES, 0, <<T(OP_PLUS, 0, <<Leaf(a), Leaf(b)>>), Leaf(c)>>)

\* the binary operators of the token alphabet, and how tightly each binds
InfixOps == {OP_PLUS, OP_MINUS, OP_TIMES, OP_DIVIDE, OP_POWER} \cap TokenOps
Binds(op) == IF op \in {OP_PLUS, OP_MINUS} THEN 1
             ELSE IF op \in {OP_TIMES, OP_DIVIDE} THEN 2 ELSE 3
GroupsRight(op) == op = OP_POWER

\* operand, operator, operand, ..., operand
IsInfix(s) ==
    /\ Len(s) % 2 = 1
    /\ \A i \in 1..Len(s) : IF i % 2 = 1 THEN s[i] \in Operands
                            ELSE s[i].op \in InfixOps

RECURSIVE ExpectedTree(_)
\* the tree of an infix stream: split at the operator that binds least; of
\* several such, at the last one, or at the first one if they group to the
\* right
ExpectedTree(s) ==
    IF Len(s) = 1 THEN Leaf(s[1])
    ELSE LET ops   == {i \in 1..Len(s) : i % 2 = 0}
             least == {i \in ops : \A j \in ops : Binds(s[i].op) <= Binds(s[j].op)}
             k     == IF \E i \in least : GroupsRight(s[i].op)
                      THEN CHOOSE i \in least : \A j \in least : i <= j
                      ELSE CHOOSE i \in least : \A j \in least : i >= j
         IN T(s[k].op, 0, <<ExpectedTree(SubSeq(s, 1, k - 1)),
                            ExpectedTree(SubSeq(s, k + 1, Len(s)))>>)

LeftBraceOpen ==
    \E i \in 1..Len(parser.operator_stack.stack) :
        Deref(mem, parser.operator_stack.stack[i]).operator_value = OP_LEFT_BRACE

\* the process has ended in exit(1) and no tree was handed out
SyntaxFailure(M, tree) == M.fault = "exit" /\ tree = NULL

\* C11: a right parenthesis parsed while the operator stack holds no left
\* parenthesis ends the process in parser_parse_node with exit(1), and
\* parser_finish called while the operator stack holds a left parenthesis
\* ends it with exit(1); in both cases no tree is returned.
C11_UnmatchedGrouping ==
    [][ /\ (pc' = "parsing" /\ input' = Append(input, Tok(OP_RIGHT_BRACE))
            /\ ~LeftBraceOpen) => SyntaxFailure(mem', function_tree')
        /\ (pc' = "finished" /\ LeftBraceOpen) => SyntaxFailure(mem', function_tree')
      ]_vars

\* 2 + 3 ) : the plus is reduced, the stack is empty, the process exits
C11_Witness ==
    /\ pc = "parsing"
    /\ input = <<Lit(2), Tok(OP_PLUS), Lit(3), Tok(OP_RIGHT_BRACE)>>
    /\ mem.fault = "exit"
    /\ parser.operator_stack.stack = <<>>
    /\ Len(parser.operand_stack.stack) = 1

RECURSIVE Underflows(_, _)
\* reducing the operators ops one after the other, the last of ops first,
\* with n nodes on the operand stack, meets an operator that lacks operands
\* before it meets a left parenthesis
Underflows(ops, n) ==
    IF ops = <<>> THEN FALSE
    ELSE LET op == Deref(mem, ops[Len(ops)])
         IN IF op.operator_value = OP_LEFT_BRACE THEN FALSE
            ELSE IF op.arity > n THEN TRUE
            ELSE Underflows(SubSeq(ops, 1, Len(ops) - 1), n - op.arity + 1)

\* C12: pop_operator applied while the operand stack holds fewer nodes than
\* the arity of the operator on top of the operator stack ends the process
\* with exit(1), and every operand it has installed by then is a node that
\* was on the operand stack; parser_finish that comes to reduce such an
\* operator ends the process with exit(1) and returns no tree.
C12_MissingOperands ==
    [][ /\ ( /\ pc = "parsing" /\ Running(mem)
             /\ parser.operator_stack.stack # <<>>
             /\ Deref(mem, syntax_node_stack_top(parser.operator_stack)).arity
                   > Len(parser.operand_stack.stack) )
           => LET op == syntax_node_stack_top(parser.operator_stack)
                  X  == pop_operator([M |-> mem, p |-> parser])
              IN /\ X.M.fault = "exit"
                 /\ \A i \in 1..MAX_ARITY :
                       \/ X.M.nodes[op].operand[i] = mem.nodes[op].operand[i]
                       \/ \E k \in 1..Len(parser.operand_stack.stack) :
                             X.M.nodes[op].operand[i] = parser.operand_stack.stack[k]
        /\ ( /\ pc' = "finished"
             /\ Underflows(parser.operator_stack.stack, Len(parser.operand_stack.stack)) )
           => SyntaxFailure(mem', function_tree')
      ]_vars

\* 2 + : parser_finish reduces the plus with one operand on the stack
C12_Witness ==
    /\ pc = "finished"
    /\ input = <<Lit(2), Tok(OP_PLUS)>>
    /\ mem.fault = "exit"
    /\ function_tree = NULL
    /\ parser.operand_stack.stack = <<>>

-----------------------------------------------------------------------------
(* Claims about the compiler and the virtual machine (SpecTree)            *)

RECURSIVE ChildrenFirstCode(_)
RECURSIVE ChildrenCode(_, _)
\* the code of the children kids[i..], one after the other
ChildrenCode(kids, i) ==
    IF i > Len(kids) THEN <<>>
    ELSE ChildrenFirstCode(kids[i]) \o ChildrenCode(kids, i + 1)

\* the byte sequence in which every node's opcode follows the code of its
\* children, and a literal's opcode follows the 8 bytes of its value
ChildrenFirstCode(t) ==
    IF t.op = OP_NUMBER THEN DoubleBytes(t.val) \o <<OPC_NUM>>
    ELSE ChildrenCode(t.kids, 1) \o <<operator_to_opcode(t.op)>>

\* C13: the byte sequence compile_syntax_node writes for a tree holds, for
\* every operator or function node, the code of its children in child order
\* followed by the node's opcode, and for a literal the 8 bytes of the value
\* followed by the literal opcode.
C13_ChildrenBeforeOpcode ==
    (pc = "compiled" /\ Running(mem) /\ out.error = 0) =>
        SubSeq(out.code.code, 1, out.code.length) = ChildrenFirstCode(input)

\* the bytes machine_execute reads in opcode position, last byte first
RECURSIVE OpcodesRead(_, _)
OpcodesRead(code, index) ==
    IF index < 1 THEN {}
    ELSE IF code[index] = OPC_NUM THEN {OPC_NUM} \cup OpcodesRead(code, index - 1 - SIZEOF_DOUBLE)
    ELSE {code[index]} \cup OpcodesRead(code, index - 1)

\* C14: machine_execute returns a non-zero status, without the process
\* ending, whenever a byte in opcode position is none of the thirteen
\* opcodes 0x01..0x0d; the bytes 0x00, 0x0e, 0x0f and those above 0x0f are
\* such bytes.
C14_UnknownOpcodeFails ==
    (pc = "vm_done" /\ out.avail < 0
        /\ \E b \in OpcodesRead(input, Len(input)) \cap ByteValues : ~(b \in 1..13)) =>
            Running(mem) /\ out.error # 0

\* C15: whenever machine_execute ends with a failure status, because an
\* allocation for the number stack failed or because a byte was no opcode
\* (the first byte of the sequence included), *result is what it was before
\* the call and no assertion has ended the process.
C15_FailureLeavesResult ==
    (pc = "vm_done" /\ out.error # 0) =>
        /\ Running(mem)
        /\ out.result = Unset

\* the tree holds a divide node whose divisor evaluates to 0 at x
DividesByZero(x) ==
    \E p \in NodesOf(mem, function_tree) :
        /\ Deref(mem, p).operator_value = OP_DIVIDE
        /\ syntax_node_operate(mem, Operand(mem, p, 1), x) = Val(0)

\* C16: for a tree with a division whose divisor evaluates to exactly zero,
\* syntax_node_operate returns to its caller with a failure and the process
\* keeps running, and machine_execute on the compiled tree returns a
\* non-zero status.
C16_DivisionByZeroReported ==
    /\ (pc = "operated" /\ DividesByZero(out.x)) => Running(mem) /\ out.st # "ok"
    /\ (pc = "executed" /\ DividesByZero(out.machine.reg_x)) =>
           Running(mem) /\ out.error # 0

-----------------------------------------------------------------------------
(* Claims about syntax_node_condense and syntax_node_copy (SpecTree)       *)

RECURSIVE Condensed(_, _)
\* the tree rooted at p in M with every variable-free subtree replaced by a
\* literal of its value
Condensed(M, p) ==
    IF ~HasVariable(TreeOf(M, p)) THEN Num(syntax_node_operate(M, p, 4).v)
    ELSE T(Deref(M, p).operator_value, Deref(M, p).numeric_value,
           [i \in 1..Deref(M, p).arity |-> Condensed(M, Operand(M, p, i - 1))])

\* every literal of the tree rooted at function_tree has arity 0 and no child
LiteralsAreLeaves ==
    \A p \in NodesOf(mem, function_tree) :
        Deref(mem, p).operator_value = OP_NUMBER =>
            Deref(mem, p).arity = 0 /\ Deref(mem, p).operand = <<NULL, NULL>>

\* C17: when syntax_node_condense(root) returns, the tree at root is the
\* original tree with every variable-free subtree replaced in place by one
\* literal node (arity 0, no children) holding the value syntax_node_operate
\* gives for that subtree, every node above a variable keeps its operator,
\* and the value returned is 1 exactly when the root held no variable.
C17_CondenseFoldsConstants ==
    (pc = "condensed" /\ Running(mem)) =>
        /\ TreeOf(mem, function_tree) = Condensed(out.before, function_tree)
        /\ LiteralsAreLeaves
        /\ out.condensable \in {0, 1}
        /\ out.condensable = 1 <=> ~HasVariable(input)

\* x + 5 * 5 becomes x + 25
C17_Witness ==
    /\ pc = "condensed"
    /\ Running(mem)
    /\ input = T(OP_PLUS, 0, <<T(OP_X_VAR, 0, <<>>), T(OP_TIMES, 0, <<Num(5), Num(5)>>)>>)
    /\ TreeOf(mem, function_tree) = T(OP_PLUS, 0, <<T(OP_X_VAR, 0, <<>>), Num(25)>>)
    /\ out.condensable = 0

\* C18: syntax_node_condense applied to a tree it has already condensed
\* changes no node and returns what the first application returned.
C18_CondenseIdempotent ==
    (pc = "condensed_twice" /\ Running(mem)) =>
        /\ mem.nodes = out.before.nodes
        /\ mem.freed = out.before.freed
        /\ out.condensable = out.first.condensable

\* x + 5 * 5 condensed twice: x + 25 after the first call and after the
\* second, which returns 0 again
C18_Witness ==
    /\ pc = "condensed_twice"
    /\ Running(mem)
    /\ input = T(OP_PLUS, 0, <<T(OP_X_VAR, 0, <<>>), T(OP_TIMES, 0, <<Num(5), Num(5)>>)>>)
    /\ TreeOf(mem, function_tree) = T(OP_PLUS, 0, <<T(OP_X_VAR, 0, <<>>), Num(25)>>)
    /\ out.condensable = 0 /\ out.first.condensable = 0

\* the nodes of the tree rooted at p are in M what they are in mem, and
\* none of them is freed
Untouched(M, p) ==
    \A q \in NodesOf(M, p) : mem.nodes[q] = M.nodes[q] /\ ~(q \in mem.freed)

\* C19: syntax_node_copy returns a tree equal to the original at every
\* position (operator, value, arity) that shares no node with it and leaves
\* the original as it was; destroying or condensing one of the two trees
\* leaves the other as it was; when an allocation fails during the copy, NULL
\* is returned and every node allocated by the call has been freed.
C19_CopyIsIndependent ==
    /\ (pc = "copied" /\ Running(mem)) =>
          /\ Untouched(out.before, function_tree)
          /\ out.avail < 0 => out.copy # NULL
          /\ out.copy # NULL =>
                /\ TreeOf(mem, out.copy) = TreeOf(out.before, function_tree)
                /\ NodesOf(mem, out.copy) \cap NodesOf(mem, function_tree) = {}
                /\ NodesOf(mem, out.copy) \cap mem.freed = {}
          /\ out.copy = NULL =>
                \A p \in (Len(out.before.nodes) + 1)..Len(mem.nodes) : p \in mem.freed
    /\ (pc = "copy_used" /\ Running(mem)) =>
          Untouched(out.before, IF out.which = "original" THEN out.copy ELSE function_tree)

\* the copy of 5 / x destroyed: the original is still 5 / x
C19_Witness ==
    /\ pc = "copy_used"
    /\ Running(mem)
    /\ out.call = "destroy" /\ out.which = "copy"
    /\ input = T(OP_DIVIDE, 0, <<Num(5), T(OP_X_VAR, 0, <<>>)>>)
    /\ TreeOf(mem, function_tree) = input
    /\ NodesOf(out.before, out.copy) \subseteq mem.freed

-----------------------------------------------------------------------------
(* Claims about method_iterate (SpecMethod)                                *)

\* the call has returned, or the process has ended
MethodOver == pc = "method_done" \/ ~Running(mem)

\* C20: method_iterate always ends; it makes at most MAX_ITERATIONS (100)
\* updates of the variable; it returns status 0 only after evaluating a
\* function value within the precision threshold of zero; after 100 updates
\* without such a value it returns the status -1, different from 0 and from
\* the status of a failed execution.
C20_MethodTerminates ==
    /\ <>MethodOver
    /\ [](/\ out.iterations <= MAX_ITERATIONS
          /\ pc = "method_done" =>
               /\ out.error = 0 => WithinPrecision(out.f_xn)
               /\ out.iterations = MAX_ITERATIONS =>
                     ~WithinPrecision(out.f_xn) /\ out.error = 0 - 1
               /\ out.error = 0 - 1 => out.iterations = MAX_ITERATIONS)

\* f = 2, f' = 2 from the guess 4: 100 updates, each lowering x by 1
C20_Witness ==
    /\ pc = "method_done"
    /\ input.function.code = LiteralCode(2) /\ input.derivative.code = LiteralCode(2)
    /\ input.guess = 4
    /\ out.iterations = MAX_ITERATIONS
    /\ out.error = 0 - 1
    /\ out.result = 4 - MAX_ITERATIONS

\* C21: when the last execution of the derivative's code in a call of
\* method_iterate gave exactly zero, the call returns a non-zero error
\* status: it never returns status 0 with a value obtained by dividing by
\* that zero.
C21_ZeroDerivativeReported ==
    (pc = "method_done" /\ out.iterations > 0 /\ out.d_xn = 0) => out.error # 0

\* C22: after machine_execute terminates successfully the register reg_x of
\* the machine holds the result of the expression.
C22_RegisterHoldsResult ==
    (pc = "vm_done" /\ Running(mem) /\ out.error = 0)
        => out.machine.reg_x = out.result

\* C23: vm_code_copy returns a code with the length and the bytes of the
\* original, and the error code pointed to is 0 after every successful copy,
\* whatever it held before the call, and non-zero after a failed one.
C23_CopyReportsError ==
    pc = "vm_copied" =>
        IF out.avail # 0 /\ out.original.capacity > 0
        THEN /\ out.copy.length = out.original.length
             /\ out.copy.code = out.original.code
             /\ out.error = 0
        ELSE out.error # 0

\* the operators of the grouping tokens
Grouping == {OP_LEFT_BRACE, OP_RIGHT_BRACE}

\* C24: every tree returned by parser_finish is well formed: it holds no
\* grouping node, every node has the children of its operator's arity, no
\* node is used twice, and the node of every token passed to the parser
\* other than the grouping tokens is in the tree.  (The node of the i-th
\* token is at address i.)
C24_FinishedTreeWellFormed ==
    (pc = "finished" /\ Running(mem) /\ function_tree # NULL) =>
        LET nodes == NodesOf(mem, function_tree)
        IN /\ WellFormedTree(TreeOf(mem, function_tree))
           /\ \A p \in nodes : Deref(mem, p).operator_value \notin Grouping
           /\ CountNodes(mem, function_tree) = Cardinality(nodes)
           /\ \A i \in 1..Len(input) : input[i].op \notin Grouping => i \in nodes

\* C25: on the byte sequence compiler_backend produced from a well-formed
\* tree, machine_execute fails no assertion (no pop from an empty stack, one
\* number on the stack at the end) and reads no byte before the start of the
\* sequence; a successful execution ends with exactly one number on the
\* stack.
C25_CompiledCodeRunsClean ==
    (pc = "executed" /\ WellFormedTree(input)) =>
        Running(mem) /\ (out.error = 0 => out.count = 1)

\* C26: when parser_parse_node is given an arithmetic operator while the
\* operator stack is not empty, no assertion fails (both precedences
\* compared are non-zero), a left parenthesis on top of the operator stack
\* included.
C26_PrecedencesNonZero ==
    [][ (/\ pc' = "parsing" /\ Len(input') = Len(input) + 1
         /\ token_is_operator(input'[Len(input')].op)
         /\ ~syntax_node_stack_is_empty(parser.operator_stack))
            => mem'.fault # "assert"
      ]_vars

\* C27: compiling a well-formed tree fails no assertion (code->length > 0
\* holds on every call of write_number), and compiler_backend returns
\* success for a tree whose root is a numeric literal.
C27_WriteNumberAssertion ==
    (pc = "compiled" /\ WellFormedTree(input)) =>
        /\ mem.fault # "assert"
        /\ input.op = OP_NUMBER => out.error = 0

RECURSIVE HasOperator(_, _)
\* a node of the tree has one of the operators
HasOperator(t, ops) ==
    t.op \in ops \/ \E i \in 1..Len(t.kids) : HasOperator(t.kids[i], ops)

\* no byte 0x00 is in opcode position in the code
NoUnmappedOpcode(code) == 0 \notin OpcodesRead(code.code, code.length)

\* C28: in the pipeline of main (condense, derive, condense, compile twice)
\* no tree handed to compiler_backend holds a pi or e node, and no code
\* compiled holds the byte 0x00 as an opcode.
C28_NoConstantsCompiled ==
    pc = "pipelined" =>
        /\ out.compiled >= 1 => ~HasOperator(TreeOf(mem, function_tree), {OP_PI, OP_E})
        /\ out.compiled >= 2 =>
              /\ ~HasOperator(TreeOf(mem, derivative_tree), {OP_PI, OP_E})
              /\ NoUnmappedOpcode(out.function_vm_code)
        /\ (out.compiled >= 2 /\ Running(mem) /\ out.error = 0) =>
              NoUnmappedOpcode(out.derivative_vm_code)

\* sin(x * pi): both trees are compiled, sin(x * 3) and
\* (3 + x * 0) * cos(x * 3)
C28_Witness ==
    /\ pc = "pipelined" /\ Running(mem)
    /\ input = T(OP_SIN, 0, <<T(OP_TIMES, 0, <<T(OP_X_VAR, 0, <<>>), T(OP_PI, 0, <<>>)>>)>>)
    /\ out.compiled = 2 /\ out.error = 0
    /\ Shape(TreeOf(mem, function_tree))
          = T(OP_SIN, 0, <<T(OP_TIMES, 0, <<T(OP_X_VAR, 0, <<>>), Num(PI)>>)>>)
    /\ Shape(TreeOf(mem, derivative_tree))
          = T(OP_TIMES, 0,
              <<T(OP_PLUS, 0, <<Num(PI), T(OP_TIMES, 0, <<T(OP_X_VAR, 0, <<>>), Num(0)>>)>>),
                T(OP_COS, 0, <<T(OP_TIMES, 0, <<T(OP_X_VAR, 0, <<>>), Num(PI)>>)>>)>>)
    /\ OpcodesRead(out.derivative_vm_code.code, out.derivative_vm_code.length)
          = {OPC_NUM, OPC_VAR_X, OPC_MULT, OPC_ADD, OPC_COS}

\* the nodes allocated since the memory was as in before that are neither
\* freed nor part of the tree rooted at p
Leaked(before, M, p) ==
    ((Len(before.nodes) + 1)..Len(M.nodes)) \ (M.freed \cup NodesOf(M, p))

\* C29: when syntax_node_derive returns, every node allocated during the
\* call is part of the returned tree or has been destroyed.
C29_DeriveLeaksNothing ==
    (pc = "derived" /\ Running(mem)) => Leaked(out.before, mem, derivative_tree) = {}

\* C30: after any pushes and pops the parser's node stacks and the machine's
\* number stack have capacity >= 1 and no more elements than capacity; a
\* push doubles the capacity exactly when it finds the stack full; a pop
\* returns the last element and keeps all the others, also when it shrinks
\* the array.
Counted(n) == [i \in 1..n |-> i]

StackKept(stack, capacity) ==
    /\ capacity >= 1
    /\ Len(stack) <= capacity
    /\ stack = Counted(Len(stack))

StacksKept ==
    (pc = "stack" /\ Running(mem)) =>
        /\ StackKept(parser.operand_stack.stack, parser.operand_stack.capacity)
        /\ StackKept(parser.operator_stack.stack, parser.operator_stack.capacity)
        /\ StackKept(out.stack, out.capacity)

Doubled(count, capacity) == IF count = capacity THEN 2 * capacity ELSE capacity

StackCall ==
    pc = "stack" =>
        /\ input'.call = "node_push" =>
               LET s == parser[input'.which]
                   t == parser'[input'.which]
               IN /\ Running(mem')
                  /\ t.capacity = Doubled(Len(s.stack), s.capacity)
                  /\ t.stack = Append(s.stack, Len(s.stack) + 1)
        /\ (input'.call = "node_pop" /\ parser[input'.which].stack # <<>>) =>
               LET s == parser[input'.which]
                   t == parser'[input'.which]
               IN /\ Running(mem')
                  /\ Len(s.stack) <= t.capacity
                  /\ t.stack = SubSeq(s.stack, 1, Len(s.stack) - 1)
                  /\ input'.ptr = s.stack[Len(s.stack)]
        /\ input'.call = "number_push" =>
               /\ Running(mem')
               /\ out'.rc = 0 =>
                      /\ out'.capacity = Doubled(Len(out.stack), out.capacity)
                      /\ out'.stack = Append(out.stack, Len(out.stack) + 1)
               /\ out'.rc # 0 =>
                      /\ Len(out.stack) = out.capacity
                      /\ out'.capacity = out.capacity
                      /\ out'.stack = out.stack
        /\ (input'.call = "number_pop" /\ out.stack # <<>>) =>
               /\ Running(mem')
               /\ Len(out'.stack) <= out'.capacity
               /\ out'.stack = SubSeq(out.stack, 1, Len(out.stack) - 1)
               /\ out'.tmp[1] = out.stack[Len(out.stack)]

====
